---- MODULE Spec2Model ----
(***************************************************************************)
(* Browser-automation scripts of the CUI "Virtual Office" dashboard.       *)
(*                                                                         *)
(* Every script is a sequential procedure driving one headless browser.    *)
(* One run of the model is one run of one script: Init picks the script    *)
(* and the process environment, the actions are the script's steps, and    *)
(* the page under test is the environment: each page call draws its        *)
(* outcome (found / not found / raises, and when the awaited event occurs) *)
(* from a small set.                                                       *)
(***************************************************************************)
EXTENDS Integers, Sequences, FiniteSets, TLC

VARIABLES
    script,       \* which script this run executes
    launches,     \* browsers launched so far (chromium.launch calls that returned)
    pc,           \* position of the main procedure; it ends in "done" (after its last
                  \* statement), "returned" (an earlier return) or "raised" (an exception
                  \* left the entry point)
    env,          \* process environment: AI_BRIDGE_API_KEY, ANTHROPIC_API_KEY, CUI_URL
    client,       \* VisualTester.client (None when no key)
    pw,           \* Playwright driver: "none", "running", "stopped"
    browser,      \* the launched browser: "none", "open", "closed" (by browser.close(),
                  \* or by the driver: leaving "async with async_playwright()" stops
                  \* the driver, which closes the browser it launched)
    i,            \* outer loop index (scenario, panel, request, browser entry)
    j,            \* inner loop index (step of the scenario)
    results,      \* self.results
    screenshots,  \* self.screenshots
    history,      \* VisualTester.conversation_history
    obs,          \* what the last operation did: calls issued in order, waits, return value
    failed,       \* some attempt of this run has failed (raised or found nothing)
    report,       \* the summary / JSON report written by the run (None before)
    ret,          \* value the entry point returned / exit status (None before)
    found,        \* local flag of the running procedure (found, clicked, tab_found)
    faults,       \* failed page calls charged to the fault budget (long scripts only)
    loc           \* local variables of the main procedure, by name

vars == <<script, launches, pc, env, client, pw, browser, i, j, results, screenshots,
          history, obs, failed, report, ret, found, faults, loc>>

-----------------------------------------------------------------------------
(* Bounds of the model *)

\* Latest instant (in seconds) at which the page produces an awaited event.
MaxEventSeconds == 6

\* Failing page calls a run of one of the long scripts may meet.
MaxFaults == 2

\* FlexLayout tabs a page may show.
MaxTabs == 2

\* Console messages and page errors a page may emit during one run.
MaxLogs == 2

\* Cookie rows found in all browsers together.
MaxTokenRows == 3

-----------------------------------------------------------------------------
(* Python values *)

None == "None"

\* Python truthiness of an optional string: None and "" are falsy.
Truthy(v) == v \notin {None, ""}

\* dict.get(key, default)
Get(d, key, default) == IF key \in DOMAIN d THEN d[key] ELSE default

\* os.getenv(name, default): the default only when the variable is unset.
Getenv(value, default) == IF value = None THEN default ELSE value

Min(a, b) == IF a < b THEN a ELSE b

\* Values an environment variable can have when the script starts.
EnvValues == {None, "", "sk-key"}

\* Instants (ms) at which an awaited page event may occur.
EventTimes == {k * 1000 : k \in 0..MaxEventSeconds}

NoObs == [op |-> "none"]

\* No report written yet.
NoReport == [written |-> FALSE]

\* No local variable bound yet.
NoLocals == [x \in {} |-> None]

-----------------------------------------------------------------------------
(* Selector strings.  A string is a sequence of tokens; "," and " " are    *)
(* the only tokens str.split(",") and str.strip() look at.                 *)

RECURSIVE SplitComma(_, _)
\* s.split(","): cur is the piece being collected.
SplitComma(s, cur) ==
    IF s = <<>> THEN <<cur>>
    ELSE IF Head(s) = "," THEN <<cur>> \o SplitComma(Tail(s), <<>>)
    ELSE SplitComma(Tail(s), Append(cur, Head(s)))

RECURSIVE LStrip(_)
LStrip(s) == IF s # <<>> /\ Head(s) = " " THEN LStrip(Tail(s)) ELSE s

RECURSIVE RStrip(_)
RStrip(s) ==
    IF s # <<>> /\ s[Len(s)] = " " THEN RStrip(SubSeq(s, 1, Len(s) - 1)) ELSE s

Strip(s) == RStrip(LStrip(s))

\* [s.strip() for s in selector.split(",")]
SplitSelectors(selector) ==
    LET parts == SplitComma(selector, <<>>)
    IN  [k \in 1..Len(parts) |-> Strip(parts[k])]

-----------------------------------------------------------------------------
(* Trying a list of alternative selectors in order.                        *)
(* works is the set of list positions whose attempt would succeed on the   *)
(* page; the result lists the attempts made, in the order made.            *)

RECURSIVE TryFrom(_, _, _)
TryFrom(selectors, k, works) ==
    IF k > Len(selectors) THEN <<>>
    ELSE IF k \in works
         THEN <<[sel |-> selectors[k], pos |-> k, ok |-> TRUE]>>          \* break
         ELSE <<[sel |-> selectors[k], pos |-> k, ok |-> FALSE]>>
              \o TryFrom(selectors, k + 1, works)                          \* continue

\* A loop without the break: every selector of the list is attempted,
\* whatever the earlier ones did.
TrySelectors_All(selectors, works) ==
    [k \in 1..Len(selectors) |-> [sel |-> selectors[k], pos |-> k, ok |-> k \in works]]

TrySelectors(selectors, works) == TryFrom(selectors, 1, works)

AnyOk(tried) == \E k \in 1..Len(tried) : tried[k].ok


-----------------------------------------------------------------------------
(* autonomous-visual-tester.py                                             *)

\* BASE_URL of the scripts that hardcode it.
LOCAL_URL == "http://localhost:4005"

\* Values of CUI_URL when the visual tester starts.
CuiUrls == {None, "http://staging:9000"}

\* Module level: BASE_URL = os.getenv("CUI_URL", "http://localhost:4005")
BASE_URL(e) == IF e.CUI_URL = None THEN "http://localhost:4005" ELSE e.CUI_URL

\* Characters outside ASCII are written by code point, U+2705 for the white
\* check mark; the prompt text is otherwise verbatim.

TEST_SCENARIOS(e) == <<
    [name |-> "Virtual Office Overview",
     steps |-> <<
        [action |-> "navigate", url |-> BASE_URL(e)],
        [action |-> "wait", selector |-> <<"#root">>, timeout |-> 5000],
        [action |-> "click", selector |-> <<"text=Virtual Office">>, optional |-> TRUE],
        [action |-> "wait_for_stable", duration |-> 2],
        [action |-> "screenshot", name |-> "virtual-office-overview"],
        [action |-> "analyze", expectations |-> <<
            "Activity Stream panel visible on the left",
            "Agent Grid or view selector in center",
            "Action Items panel visible on right",
            "At least some data populated (not all empty)">>] >>],
    [name |-> "Activity Stream Check",
     steps |-> <<
        [action |-> "screenshot",
         selector |-> <<".activity-stream", ",", " ", "[data-panel='activity']">>,
         name |-> "activity-stream"],
        [action |-> "analyze", expectations |-> <<
            "At least 3-5 activity events visible",
            "Events have timestamps (e.g., '2m ago', '1h ago')",
            "Agent names displayed (Herbert, Klaus, Sarah, etc.)",
            "Action icons visible (U+2705, U+1F4DD, U+274C, U+1F4AC)">>] >>],
    [name |-> "Business Approval Panel",
     steps |-> <<
        [action |-> "click", selector |-> <<"text=Business">>, optional |-> TRUE],
        [action |-> "wait_for_stable", duration |-> 1],
        [action |-> "screenshot", name |-> "business-approval-panel"],
        [action |-> "analyze", expectations |-> <<
            "List of pending items visible on left (4 items expected)",
            "Reports listed: Security Audit, Performance, Tech Debt",
            "Right side shows content area (may be empty until item clicked)",
            "Approve/Reject buttons present">>] >>],
    [name |-> "Business Approval - Content Check",
     steps |-> <<
        [action |-> "click",
         selector |-> <<"text=Security Audit", ",", " ", "text=Performance", ",", " ",
                        "text=Tech Debt">>,
         first |-> TRUE],
        [action |-> "wait_for_stable", duration |-> 1],
        [action |-> "screenshot", name |-> "business-approval-content"],
        [action |-> "analyze", expectations |-> <<
            "Markdown content visible on right side",
            "Content is NOT empty",
            "Headers, lists, or formatted text visible",
            "Content matches selected report (Security/Performance/Tech Debt)">>,
         critical |-> TRUE] >>],
    [name |-> "Agent Grid",
     steps |-> <<
        [action |-> "click",
         selector |-> <<"button:has-text('Agent Grid')", ",", " ", "[data-view='grid']">>,
         optional |-> TRUE],
        [action |-> "wait_for_stable", duration |-> 1],
        [action |-> "screenshot", name |-> "agent-grid"],
        [action |-> "analyze", expectations |-> <<
            "Multiple agent cards visible (expecting 17 agents)",
            "Each card shows agent name",
            "MBTI badges visible (ENTJ, INTP, etc.)",
            "Status indicators (idle, working, error)">>] >>],
    [name |-> "Agent Detail Modal",
     steps |-> <<
        [action |-> "click",
         selector |-> <<".agent-card", ",", " ", "button:has-text('Herbert')", ",", " ",
                        "button:has-text('Sarah')">>,
         first |-> TRUE],
        [action |-> "wait_for_stable", duration |-> 1],
        [action |-> "screenshot", name |-> "agent-detail-modal"],
        [action |-> "analyze", expectations |-> <<
            "Modal overlay visible",
            "Agent details displayed (name, role, MBTI)",
            "Tabs visible (Overview, Inbox, Worklist, Knowledge, etc.)",
            "Can see agent-specific information">>] >> ] >>

\* The module is loaded once per run: TEST_SCENARIOS for each value of CUI_URL,
\* and the list of the run at hand.
VT_Loaded ==
    [u \in CuiUrls |-> TEST_SCENARIOS([AI_BRIDGE_API_KEY |-> None,
                                       ANTHROPIC_API_KEY |-> None, CUI_URL |-> u])]

VT_Scenarios == VT_Loaded[env.CUI_URL]

\* Module level: AI_BRIDGE_KEY = os.getenv("AI_BRIDGE_API_KEY")
VT_AI_BRIDGE_KEY(e) == e.AI_BRIDGE_API_KEY

\* Module level: ANTHROPIC_KEY = os.getenv("ANTHROPIC_API_KEY", AI_BRIDGE_KEY)
VT_ANTHROPIC_KEY(e) == Getenv(e.ANTHROPIC_API_KEY, VT_AI_BRIDGE_KEY(e))

\* A constructor that builds the client whatever the key is.
VT_NewClient_Always(e) == "anthropic-client"

\* VisualTester.__init__: the client exists only when the key is truthy.
VT_NewClient(e) == IF Truthy(VT_ANTHROPIC_KEY(e)) THEN "anthropic-client" ELSE None

\* The verdict texts the vision model may answer with, as the markers they contain.
Analyses == {<<"PASS">>, <<"FAIL">>}

NoAnalysis == <<>>
IoError == <<"io_error">>
ApiError == <<"api_error">>

Contains(text, marker) == \E k \in 1..Len(text) : text[k] = marker

CurScenario == VT_Scenarios[i]
CurStep == CurScenario.steps[j]

VT_AtStep(action) ==
    /\ script = "visual-tester"
    /\ pc = "steps"
    /\ CurStep.action = action

\* A run_scenario that swallows the exception of a step and goes on with the
\* next step of the scenario.
VT_Advance_Continue(raised) ==
    IF j = Len(CurScenario.steps)
    THEN /\ results' = Append(results,
                              [scenario |-> CurScenario.name, success |-> ~raised])
         /\ j' = 1
         /\ i' = i + 1
         /\ pc' = IF i = Len(VT_Scenarios) THEN "summary" ELSE "steps"
    ELSE /\ j' = j + 1
         /\ UNCHANGED <<results, i, pc, found, faults, loc>>

\* A run_all that gives up at the first failed scenario and goes straight to
\* the summary.
VT_Advance_StopAtFailure(raised) ==
    LET last == j = Len(CurScenario.steps)
    IN  IF raised \/ last
        THEN /\ results' = Append(results,
                                  [scenario |-> CurScenario.name, success |-> ~raised])
             /\ j' = 1
             /\ i' = i + 1
             /\ pc' = IF raised \/ i = Len(VT_Scenarios) THEN "summary" ELSE "steps"
        ELSE /\ j' = j + 1
             /\ UNCHANGED <<results, i, pc, found, faults, loc>>

\* A run_scenario without its except clause: the exception of a step leaves
\* run_scenario and run_all's try block.
VT_Advance_Propagate(raised) ==
    LET last == j = Len(CurScenario.steps)
    IN  IF raised
        THEN /\ pc' = "finally"
             /\ UNCHANGED <<results, i, j>>
        ELSE IF last
        THEN /\ results' = Append(results,
                                  [scenario |-> CurScenario.name, success |-> TRUE])
             /\ j' = 1
             /\ i' = i + 1
             /\ pc' = IF i = Len(VT_Scenarios) THEN "summary" ELSE "steps"
        ELSE /\ j' = j + 1
             /\ UNCHANGED <<results, i, pc, found, faults, loc>>

\* run_scenario / run_all after one run_step call: raised tells whether the
\* step raised.  The scenario ends at the first raising step (False) or after
\* its last step (True); run_all appends the result and goes to the next
\* scenario, or to the summary after the last one.
VT_Advance(raised) ==
    LET last == j = Len(CurScenario.steps)
    IN  IF raised \/ last
        THEN /\ results' = Append(results,
                                  [scenario |-> CurScenario.name, success |-> ~raised])
             /\ j' = 1
             /\ i' = i + 1
             /\ pc' = IF i = Len(VT_Scenarios) THEN "summary" ELSE "steps"
        ELSE /\ j' = j + 1
             /\ UNCHANGED <<results, i, pc, found, faults, loc>>

\* run_all: async with async_playwright(), launch, new_context, new_page.
\* An exception leaves the async with block: the driver stops and closes the
\* browser if it was launched.
\* The three calls are made before the try block.
VT_Launch ==
    /\ script = "visual-tester"
    /\ pc = "start"
    /\ \E outcome \in {"ok", "launch_raises", "context_raises", "page_raises"} :
         /\ browser' = IF outcome = "launch_raises" THEN "none"
                       ELSE IF outcome = "ok" THEN "open" ELSE "closed"
         /\ launches' = IF outcome = "launch_raises" THEN launches ELSE launches + 1
         /\ pw' = IF outcome = "ok" THEN "running" ELSE "stopped"
         /\ pc' = IF outcome = "ok" THEN "steps" ELSE "raised"
         /\ obs' = [op |-> "launch", outcome |-> outcome]
    /\ UNCHANGED <<script, env, client, i, j, results, screenshots, history,
                   failed, report, ret, found, faults, loc>>

\* run_step "navigate": page.goto(url, wait_until='networkidle').
VT_Navigate ==
    /\ VT_AtStep("navigate")
    /\ \E ok \in BOOLEAN, te \in EventTimes :
         /\ obs' = [op |-> "goto", wait |-> "event", url |-> CurStep.url,
                    eventAt |-> te, elapsed |-> te, raised |-> ~ok]
         /\ failed' = (failed \/ ~ok)
         /\ VT_Advance(~ok)
    /\ UNCHANGED <<script, launches, env, client, pw, browser, screenshots, history, report, ret, found, faults, loc>>

\* page.wait_for_selector(selector, timeout): returns as soon as the element
\* is there, raises TimeoutError when the timeout elapses first.
WaitForSelector(selector, timeout, te) ==
    [op |-> "wait_for_selector", wait |-> "event", selector |-> selector,
     limit |-> timeout, eventAt |-> te,
     elapsed |-> Min(te, timeout), raised |-> ~(te < timeout)]

\* run_step "wait"
VT_Wait ==
    /\ VT_AtStep("wait")
    /\ \E te \in EventTimes :
         LET w == WaitForSelector(CurStep.selector, Get(CurStep, "timeout", 5000), te)
         IN  /\ obs' = w
             /\ failed' = (failed \/ w.raised)
             /\ VT_Advance(w.raised)
    /\ UNCHANGED <<script, launches, env, client, pw, browser, screenshots, history, report, ret, found, faults, loc>>

\* A click step that ignores the optional flag.
VT_RunClick_Strict(step, works) ==
    LET selectors == SplitSelectors(step.selector)
        tried == TrySelectors(selectors, works)
    IN  [op |-> "click", list |-> selectors, tried |-> tried, clicked |-> AnyOk(tried),
         optional |-> Get(step, "optional", FALSE), raised |-> ~AnyOk(tried)]

\* run_step "click": the selector string is split at commas and each piece is
\* tried in turn until one click works; a step that is not optional raises
\* when none worked.
VT_RunClick(step, works) ==
    LET selectors == SplitSelectors(step.selector)
        optional == Get(step, "optional", FALSE)
        tried == TrySelectors(selectors, works)
        clicked == AnyOk(tried)
    IN  [op |-> "click", list |-> selectors, tried |-> tried, clicked |-> clicked,
         optional |-> optional, raised |-> (~clicked /\ ~optional)]

\* The click steps are the same whatever BASE_URL is.
VT_ClickScenarios == VT_Loaded[None]

\* What each click step of TEST_SCENARIOS does, by scenario, step and the
\* selectors that work on the page: VT_RunClick, tabulated.
VT_ClickTable ==
    UNION { UNION {
        LET step == VT_ClickScenarios[s].steps[t]
        IN  IF step.action = "click"
            THEN {[scenario |-> s, step |-> t, works |-> works,
                   does |-> VT_RunClick(step, works)] :
                    works \in SUBSET (1..Len(SplitSelectors(step.selector)))}
            ELSE {} : t \in 1..Len(VT_ClickScenarios[s].steps)} :
        s \in 1..Len(VT_ClickScenarios)}

VT_Click ==
    /\ VT_AtStep("click")
    /\ \E c \in VT_ClickTable :
         /\ c.scenario = i
         /\ c.step = j
         /\ LET r == c.does
            IN  /\ obs' = r
                /\ failed' = (failed \/ \E k \in 1..Len(r.tried) : ~r.tried[k].ok)
                /\ VT_Advance(r.raised)
    /\ UNCHANGED <<script, launches, env, client, pw, browser, screenshots, history, report, ret, found, faults, loc>>

\* asyncio.sleep(seconds): returns after the given duration, whatever the page does.
Sleep(seconds, te) ==
    [op |-> "sleep", wait |-> "sleep", limit |-> seconds * 1000, eventAt |-> te,
     elapsed |-> seconds * 1000, raised |-> FALSE]

\* run_step "wait_for_stable"
VT_WaitForStable ==
    /\ VT_AtStep("wait_for_stable")
    /\ \E te \in EventTimes :
         /\ obs' = Sleep(Get(CurStep, "duration", 1), te)
         /\ VT_Advance(FALSE)
    /\ UNCHANGED <<script, launches, env, client, pw, browser, screenshots, history,
                   failed, report, ret, found, faults, loc>>

\* A screenshot step without the page fallback: a failing element capture
\* raises.
VT_RunScreenshot_NoFallback(step, shots, elementOk, pageOk) ==
    LET targeted == Len(Get(step, "selector", <<>>)) > 0
        raised == IF targeted THEN ~elementOk ELSE ~pageOk
    IN  [op |-> "screenshot", targeted |-> targeted, elementFailed |-> targeted /\ ~elementOk,
         calls |-> IF targeted THEN <<"element.screenshot">> ELSE <<"page.screenshot">>,
         raised |-> raised,
         path |-> IF raised THEN None ELSE step.name,
         screenshots |-> IF raised THEN shots ELSE Append(shots, step.name)]

\* run_step "screenshot": with a selector the element is captured, and the
\* page when the element cannot be found or captured; without one the page.
\* The path is appended to self.screenshots and returned; a failing page
\* screenshot raises out of the step.
VT_RunScreenshot(step, shots, elementOk, pageOk) ==
    LET path == step.name
        selector == Get(step, "selector", <<>>)     \* step.get("selector")
        targeted == Len(selector) > 0               \* if selector: (None and '' are <<>>)
        useElement == targeted /\ elementOk
        calls == IF ~targeted THEN <<"page.screenshot">>
                 ELSE IF elementOk THEN <<"element.screenshot">>
                 ELSE <<"element.screenshot", "page.screenshot">>
        raised == ~useElement /\ ~pageOk
    IN  [op |-> "screenshot", targeted |-> targeted, elementFailed |-> targeted /\ ~elementOk,
         calls |-> calls, raised |-> raised,
         path |-> IF raised THEN None ELSE path,
         screenshots |-> IF raised THEN shots ELSE Append(shots, path)]

VT_Screenshot ==
    /\ VT_AtStep("screenshot")
    /\ \E elementOk \in BOOLEAN, pageOk \in BOOLEAN :
         LET r == VT_RunScreenshot(CurStep, screenshots, elementOk, pageOk)
         IN  /\ obs' = [op |-> r.op, targeted |-> r.targeted,
                        elementFailed |-> r.elementFailed, calls |-> r.calls,
                        raised |-> r.raised, path |-> r.path,
                        before |-> Len(screenshots)]
             /\ screenshots' = r.screenshots
             /\ failed' = (failed \/ r.elementFailed \/ r.raised)
             /\ VT_Advance(r.raised)
    /\ UNCHANGED <<script, launches, env, client, pw, browser, history, report, ret, found, faults, loc>>

\* analyze_with_vision: reads the file, calls the API, records the analysis;
\* any exception is caught and None returned.
\* answer: IoError (the file cannot be read), ApiError (the call raises) or
\* the analysis text.  NoAnalysis stands for the None returned.
VT_AnalyzeWithVision(path, expectations, critical, hist, answer) ==
    IF answer = IoError
    THEN [called |-> FALSE, result |-> NoAnalysis, history |-> hist]
    ELSE IF answer = ApiError
    THEN [called |-> TRUE, result |-> NoAnalysis, history |-> hist]
    ELSE [called |-> TRUE, result |-> answer,
          history |-> Append(hist, [screenshot |-> path, expectations |-> expectations,
                                    analysis |-> answer, critical |-> critical])]

\* An analyze step that takes the first screenshot of the run instead of the
\* last one.
VT_RunAnalyze_Stale(step, cl, shots, hist, answer) ==
    IF cl = None \/ shots = <<>>
    THEN [skipped |-> "skipped", called |-> FALSE, result |-> NoAnalysis, history |-> hist,
          path |-> None]
    ELSE LET r == VT_AnalyzeWithVision(shots[1], step.expectations,
                                       Get(step, "critical", FALSE), hist, answer)
         IN  [skipped |-> "no", called |-> r.called, result |-> r.result,
              history |-> r.history, path |-> shots[1]]

\* run_step "analyze": skipped without a client or without a screenshot,
\* else the last screenshot is analysed.
VT_RunAnalyze(step, cl, shots, hist, answer) ==
    IF cl = None
    THEN [skipped |-> "no-client", called |-> FALSE, result |-> NoAnalysis, history |-> hist,
          path |-> None]
    ELSE IF shots = <<>>
    THEN [skipped |-> "no-screenshot", called |-> FALSE, result |-> NoAnalysis, history |-> hist,
          path |-> None]
    ELSE LET r == VT_AnalyzeWithVision(shots[Len(shots)], step.expectations,
                                       Get(step, "critical", FALSE), hist, answer)
         IN  [skipped |-> "no", called |-> r.called, result |-> r.result,
              history |-> r.history, path |-> shots[Len(shots)]]

VT_Analyze ==
    /\ VT_AtStep("analyze")
    /\ \E answer \in {IoError, ApiError} \cup Analyses :
         LET r == VT_RunAnalyze(CurStep, client, screenshots, history, answer)
         IN  /\ obs' = [op |-> "analyze", skipped |-> r.skipped, called |-> r.called,
                        result |-> r.result, path |-> r.path, raised |-> FALSE,
                        scenario |-> i, step |-> j, before |-> Len(history)]
             /\ history' = r.history
             /\ VT_Advance(FALSE)
    /\ UNCHANGED <<script, launches, env, client, pw, browser, screenshots, failed, report, ret, found, faults, loc>>

\* print_summary
VT_Summary(res, shots, hist) ==
    LET passed == Cardinality({k \in 1..Len(res) : res[k].success})
    IN  [written |-> FALSE,      \* printed, not saved
         total |-> Len(res), passed |-> passed, failed |-> Len(res) - passed,
         screenshots |-> Len(shots),
         critical_failures |->
            SelectSeq(hist, LAMBDA h : Get(h, "critical", FALSE)
                                       /\ Contains(Get(h, "analysis", <<>>), "FAIL"))]

VT_PrintSummary ==
    /\ script = "visual-tester"
    /\ pc = "summary"
    /\ report' = VT_Summary(results, screenshots, history)
    /\ obs' = [op |-> "print_summary"]
    /\ pc' = "finally"
    /\ UNCHANGED <<script, launches, env, client, pw, browser, i, j, results, screenshots,
                   history, failed, ret, found, faults, loc>>

\* finally: await browser.close(); then the async with block ends.
VT_Close ==
    /\ script = "visual-tester"
    /\ pc = "finally"
    /\ browser' = "closed"
    /\ pw' = "stopped"
    /\ obs' = [op |-> "browser.close"]
    /\ pc' = "done"
    /\ UNCHANGED <<script, launches, env, client, i, j, results, screenshots, history,
                   failed, report, ret, found, faults, loc>>

\* One step of a run of autonomous-visual-tester.py.
VT_Next ==
    \/ VT_Launch
    \/ VT_Navigate
    \/ VT_Wait
    \/ VT_Click
    \/ VT_WaitForStable
    \/ VT_Screenshot
    \/ VT_Analyze
    \/ VT_PrintSummary
    \/ VT_Close

-----------------------------------------------------------------------------
(* autonomous-screenshot-service.py                                        *)

\* The file size (KB) Path(filepath).stat() reports for a written screenshot.
SizesKb == {7}

\* Stands for Path(filepath).stat() raising.
StatRaises == 0 - 1

Svc_At(p) == script = "screenshot-service" /\ pc = p

\* start(): async_playwright().start(), chromium.launch, new_context, new_page.
\* self.browser is assigned as soon as launch returns.  An exception leaves
\* run()'s try block for its finally clause.
Svc_Start ==
    /\ Svc_At("start")
    /\ \E outcome \in {"ok", "start_raises", "launch_raises", "context_raises",
                       "page_raises"} :
         /\ pw' = IF outcome = "start_raises" THEN "none" ELSE "running"
         /\ browser' = IF outcome \in {"start_raises", "launch_raises"}
                       THEN "none" ELSE "open"
         /\ launches' = IF browser' = "open" THEN launches + 1 ELSE launches
         /\ pc' = IF outcome = "ok" THEN "goto" ELSE "finally_raise"
         /\ obs' = [op |-> "launch", outcome |-> outcome]
    /\ UNCHANGED <<script, env, client, i, j, results, screenshots, history,
                   failed, report, ret, found, faults, loc>>

\* navigate_to_virtual_office: page.goto(BASE_URL, wait_until='networkidle'),
\* then asyncio.sleep(3).  goto raising leaves run()'s try block.
Svc_Goto ==
    /\ Svc_At("goto")
    /\ \E ok \in BOOLEAN, te \in EventTimes :
         /\ obs' = IF ok THEN Sleep(3, te)
                   ELSE [op |-> "goto", wait |-> "event", url |-> LOCAL_URL,
                         eventAt |-> te, elapsed |-> te, raised |-> TRUE]
         /\ failed' = (failed \/ ~ok)
         /\ pc' = IF ok THEN "strategy1" ELSE "finally_raise"
    /\ found' = FALSE
    /\ UNCHANGED <<script, launches, env, client, pw, browser, i, j, results, screenshots,
                   history, report, ret, faults, loc>>

Svc_tab_selectors == <<
    <<"div[class*='flexlayout__tab']:has-text('Virtual Office')">>,
    <<".flexlayout__tab_button:has-text('Virtual Office')">>,
    <<"[data-tab='virtual-office']">> >>

\* Strategy 1: for each tab selector, wait for it (2000 ms) and click it; the
\* first selector whose wait and click both complete sets found and ends the
\* loop, any exception goes on to the next selector.
Svc_Strategy1 ==
    /\ Svc_At("strategy1")
    /\ \E works \in SUBSET (1..Len(Svc_tab_selectors)) :
         LET tried == TrySelectors(Svc_tab_selectors, works)
         IN  /\ obs' = [op |-> "select", list |-> Svc_tab_selectors, tried |-> tried,
                        clicked |-> AnyOk(tried)]
             /\ found' = AnyOk(tried)
             /\ failed' = (failed \/ \E k \in 1..Len(tried) : ~tried[k].ok)
             /\ pc' = IF AnyOk(tried) THEN "return" ELSE "strategy2"
             /\ loc' = [strategy1 |-> tried]
    /\ UNCHANGED <<script, launches, env, client, pw, browser, i, j, results, screenshots,
                   history, report, ret, faults>>

Svc_office_lite_selectors == <<
    <<"div[class*='flexlayout__tab']:has-text('Office Lite')">>,
    <<".flexlayout__tab_button:has-text('Office')">> >>

\* Strategy 2, one list entry after the other.  outcome[k] says how far the
\* attempt with selector k gets: "no_tab" (wait or click of the tab raises),
\* "no_dashboard" (tab clicked, Dashboard button wait or click raises) or
\* "ok" (both clicked: found, break).  An exception goes on to the next entry.

\* A variant in which the click on the Office tab alone counts as success.
RECURSIVE Svc_OfficeLiteFrom_TabOnly(_, _, _)
Svc_OfficeLiteFrom_TabOnly(selectors, k, outcome) ==
    IF k > Len(selectors) THEN <<>>
    ELSE LET a == [sel |-> selectors[k], pos |-> k,
                   tabClicked |-> outcome[k] # "no_tab",
                   dashboardClicked |-> outcome[k] = "ok",
                   ok |-> outcome[k] # "no_tab"]
         IN  IF a.ok THEN <<a>>
             ELSE <<a>> \o Svc_OfficeLiteFrom_TabOnly(selectors, k + 1, outcome)

RECURSIVE Svc_OfficeLiteFrom(_, _, _)
Svc_OfficeLiteFrom(selectors, k, outcome) ==
    IF k > Len(selectors) THEN <<>>
    ELSE LET a == [sel |-> selectors[k], pos |-> k,
                   tabClicked |-> outcome[k] # "no_tab",
                   dashboardClicked |-> outcome[k] = "ok",
                   ok |-> outcome[k] = "ok"]
         IN  IF a.ok THEN <<a>>
             ELSE <<a>> \o Svc_OfficeLiteFrom(selectors, k + 1, outcome)

Svc_Strategy2 ==
    /\ Svc_At("strategy2")
    /\ \E outcome \in [1..Len(Svc_office_lite_selectors) ->
                         {"no_tab", "no_dashboard", "ok"}] :
         LET tried == Svc_OfficeLiteFrom(Svc_office_lite_selectors, 1, outcome)
         IN  /\ obs' = [op |-> "select", list |-> Svc_office_lite_selectors,
                        tried |-> tried, clicked |-> AnyOk(tried)]
             /\ found' = AnyOk(tried)
             /\ failed' = TRUE
             /\ pc' = IF AnyOk(tried) THEN "return" ELSE "strategy3"
             /\ loc' = [strategy1 |-> loc.strategy1, strategy2 |-> tried]
    /\ UNCHANGED <<script, launches, env, client, pw, browser, i, j, results, screenshots,
                   history, report, ret, faults>>

\* Strategy 3: wait for the add button (2000 ms) and click it; every
\* exception is swallowed and found stays False.
Svc_Strategy3 ==
    /\ Svc_At("strategy3")
    /\ \E te \in EventTimes, clickOk \in BOOLEAN :
         LET w == WaitForSelector(
                    <<".flexlayout__tab_toolbar_button-add", ",", " ",
                      "button[aria-label='Add']">>, 2000, te)
         IN  /\ obs' = [op |-> "add_button", waited |-> w,
                         clicked |-> ~w.raised /\ clickOk]
             /\ loc' = [strategy1 |-> loc.strategy1, strategy2 |-> loc.strategy2,
                         strategy3 |-> ~w.raised /\ clickOk]
    /\ found' = found
    /\ pc' = "return"
    /\ UNCHANGED <<script, launches, env, client, pw, browser, i, j, results, screenshots,
                   history, failed, report, ret, faults>>

\* return found; run() ignores the value and goes on with the panels.  The
\* strategies the call went through (loc) are recorded with the return value
\* and go out of scope.
Svc_NavigateReturn ==
    /\ Svc_At("return")
    /\ obs' = [op |-> "navigate_return", found |-> found, strategies |-> loc]
    /\ loc' = NoLocals
    /\ i' = 1
    /\ pc' = "panels"
    /\ UNCHANGED <<script, launches, env, client, pw, browser, j, results, screenshots,
                   history, failed, report, ret, found, faults>>

\* capture_screenshot(name, description, selector).
\* elementOk: wait_for_selector (3000 ms) and element.screenshot complete;
\* pageOk: page.screenshot completes; size: what stat() reports, StatRaises when
\* it raises.
\* Every exception is caught: the call returns None and records nothing.

\* A variant that records the screenshot as soon as the file is written,
\* whatever stat() does.
Svc_CaptureScreenshot_Unguarded(name, description, selector, shots, elementOk, pageOk, size) ==
    LET targeted == selector # <<>>
        written == (targeted /\ elementOk) \/ pageOk
    IN  [op |-> "screenshot", name |-> name, targeted |-> targeted,
         elementFailed |-> targeted /\ ~elementOk,
         calls |-> IF ~targeted THEN <<"page.screenshot">>
                   ELSE IF elementOk THEN <<"element.screenshot">>
                   ELSE <<"element.screenshot", "page.screenshot">>,
         written |-> written, raised |-> FALSE,
         path |-> IF written THEN name ELSE None,
         screenshots |-> IF written
                         THEN Append(shots, [name |-> name, description |-> description,
                                             file |-> name,
                                             size_kb |-> IF size = StatRaises THEN 0
                                                         ELSE size])
                         ELSE shots]

Svc_CaptureScreenshot(name, description, selector, shots, elementOk, pageOk, size) ==
    LET targeted == selector # <<>>
        useElement == targeted /\ elementOk
        calls == IF ~targeted THEN <<"page.screenshot">>
                 ELSE IF elementOk THEN <<"element.screenshot">>
                 ELSE <<"element.screenshot", "page.screenshot">>
        written == useElement \/ pageOk
        okAll == written /\ size # StatRaises
    IN  [op |-> "screenshot", name |-> name, targeted |-> targeted,
         elementFailed |-> targeted /\ ~elementOk,
         calls |-> calls, written |-> written, raised |-> FALSE,
         path |-> IF okAll THEN name ELSE None,
         screenshots |-> IF okAll
                         THEN Append(shots, [name |-> name, description |-> description,
                                             file |-> name, size_kb |-> size])
                         ELSE shots]

\* What the page can do to one capture_screenshot call.
CaptureInputs == [elementOk : BOOLEAN, pageOk : BOOLEAN, size : SizesKb \cup {StatRaises}]

\* The capture's effect on the state, common to every call site.
Svc_DoCapture(name, description, selector, in) ==
    LET r == Svc_CaptureScreenshot(name, description, selector, screenshots,
                                   in.elementOk, in.pageOk, in.size)
    IN  /\ obs' = [op |-> r.op, name |-> r.name, targeted |-> r.targeted,
                   elementFailed |-> r.elementFailed, calls |-> r.calls,
                   written |-> r.written, raised |-> r.raised, path |-> r.path,
                   before |-> Len(screenshots), stat |-> in.size]
        /\ screenshots' = r.screenshots
        /\ failed' = (failed \/ r.elementFailed \/ r.path = None)

\* capture_virtual_office_panels, captures 1 to 4 (selector <<>> is None).
Svc_PANELS == <<
    [name |-> "01-full-page",
     description |-> "Complete CUI workspace with Virtual Office",
     selector |-> <<>>],
    [name |-> "02-activity-stream",
     description |-> "Live Activity panel showing recent agent events",
     selector |-> <<".activity-stream", ",", " ", "[data-panel*='activity']">>],
    [name |-> "03-agent-grid",
     description |-> "Agent Grid showing all 17 agents with status",
     selector |-> <<".agent-grid", ",", " ", "[data-view='grid']">>],
    [name |-> "04-action-items",
     description |-> "Action Items panel with pending approvals",
     selector |-> <<".action-items", ",", " ", "[data-panel*='action']">>] >>

Svc_CapturePanel ==
    /\ Svc_At("panels")
    /\ \E in \in CaptureInputs :
         Svc_DoCapture(Svc_PANELS[i].name, Svc_PANELS[i].description,
                       Svc_PANELS[i].selector, in)
    /\ i' = IF i = Len(Svc_PANELS) THEN 1 ELSE i + 1
    /\ pc' = IF i = Len(Svc_PANELS) THEN "business" ELSE "panels"
    /\ UNCHANGED <<script, launches, env, client, pw, browser, j, results, history, report,
                   ret, found, faults, loc>>

\* Business Approvals: wait for the button (3000 ms), click it, sleep, capture
\* 05; a failed wait or click skips the capture.
Svc_Business ==
    /\ Svc_At("business")
    /\ \/ /\ obs' = [op |-> "click", target |-> "business", clicked |-> FALSE]
          /\ failed' = TRUE
          /\ UNCHANGED screenshots
       \/ \E in \in CaptureInputs :
            Svc_DoCapture("05-business-approval",
                          "Business Approval Panel with 4 pending reports",
                          <<".business-approval-panel", ",", " ",
                            "[data-panel*='business']">>, in)
    /\ pc' = "agent"
    /\ UNCHANGED <<script, launches, env, client, pw, browser, i, j, results, history, report,
                   ret, found, faults, loc>>

\* Agent Detail Modal: wait for a card (3000 ms), click it, sleep, capture 06,
\* then look for the close button and click it; every exception is swallowed.
Svc_Agent ==
    /\ Svc_At("agent")
    /\ \/ /\ obs' = [op |-> "click", target |-> "agent-card", clicked |-> FALSE]
          /\ failed' = TRUE
          /\ UNCHANGED screenshots
       \/ \E in \in CaptureInputs :
            Svc_DoCapture("06-agent-modal",
                          "Agent Detail Modal with tabs (Inbox, Worklist, Knowledge)",
                          <<".modal", ",", " ", "[role='dialog']">>, in)
    /\ pc' = "views"
    /\ UNCHANGED <<script, launches, env, client, pw, browser, i, j, results, history, report,
                   ret, found, faults, loc>>

Svc_VIEWS == << <<"org-chart", "Org Chart">>, <<"raci", "RACI">> >>

\* One turn of the loop over the alternative views.  The view button is
\* waited for (2000 ms) and clicked, the view captured, the grid button looked
\* up and clicked, then break.  Any exception, also one raised by the way
\* back to the grid after the capture, goes on to the next view.
Svc_View ==
    /\ Svc_At("views")
    /\ \/ /\ obs' = [op |-> "click", target |-> Svc_VIEWS[i][1], clicked |-> FALSE]
          /\ failed' = TRUE
          /\ UNCHANGED screenshots
          /\ i' = IF i = Len(Svc_VIEWS) THEN 1 ELSE i + 1
          /\ pc' = IF i = Len(Svc_VIEWS) THEN "final" ELSE "views"
       \/ \E in \in CaptureInputs, backOk \in BOOLEAN :
            /\ Svc_DoCapture("07-" \o Svc_VIEWS[i][1], Svc_VIEWS[i][2] \o " view",
                             <<>>, in)
            /\ i' = IF backOk \/ i = Len(Svc_VIEWS) THEN 1 ELSE i + 1
            /\ pc' = IF backOk \/ i = Len(Svc_VIEWS) THEN "final" ELSE "views"
    /\ UNCHANGED <<script, launches, env, client, pw, browser, j, results, history, report,
                   ret, found, faults, loc>>

\* Capture 8, the final state.
Svc_Final ==
    /\ Svc_At("final")
    /\ \E in \in CaptureInputs :
         Svc_DoCapture("08-final-state", "Final state after all interactions", <<>>, in)
    /\ pc' = "report"
    /\ UNCHANGED <<script, launches, env, client, pw, browser, i, j, results, history, report,
                   ret, found, faults, loc>>

RECURSIVE SumSizes(_)
SumSizes(shots) == IF shots = <<>> THEN 0 ELSE Head(shots).size_kb + SumSizes(Tail(shots))

\* generate_report: the dictionary dumped to REPORT.json.
Svc_Report(shots) ==
    [written |-> TRUE,
     base_url |-> LOCAL_URL, screenshots |-> shots, total_screenshots |-> Len(shots),
     total_size_kb |-> SumSizes(shots)]

Svc_GenerateReport ==
    /\ Svc_At("report")
    /\ report' = Svc_Report(screenshots)
    /\ obs' = [op |-> "generate_report"]
    /\ pc' = "finally"
    /\ UNCHANGED <<script, launches, env, client, pw, browser, i, j, results, screenshots,
                   history, failed, ret, found, faults, loc>>

\* A stop() that leaves the browser as it is.
Svc_StopBrowser_Skip(b) == b

\* stop(): close the browser if self.browser is set.
Svc_StopBrowser(b) == IF b = "open" THEN "closed" ELSE b

\* run()'s finally clause: stop(), then the pending exception, if any, propagates.
Svc_Stop ==
    /\ script = "screenshot-service"
    /\ pc \in {"finally", "finally_raise"}
    /\ browser' = Svc_StopBrowser(browser)
    /\ obs' = [op |-> "stop"]
    /\ pc' = IF pc = "finally" THEN "done" ELSE "raised"
    /\ UNCHANGED <<script, launches, env, client, pw, i, j, results, screenshots, history,
                   failed, report, ret, found, faults, loc>>

-----------------------------------------------------------------------------
(* test-virtual-office-final.py                                            *)

\* Values page.locator(selector).count() may return.
Counts == {0, 3}

\* Stands for locator.count() raising.
CountRaises == 0 - 1

VOT_virtual_office_selectors == <<
    <<"button:has-text('Virtual Office')">>,
    <<"[role='tab']:has-text('Virtual Office')">>,
    <<".flexlayout__tab:has-text('Virtual Office')">> >>

VOT_approval_selectors == <<
    <<"button:has-text('Approve')">>,
    <<"text=2026-02-22">>,
    <<"text=office-status">>,
    <<"text=Security Audit">> >>

\* The body of run_tests' try block, statement by statement.  "else" is the
\* statement to go on with when the verified element is not found (the end of
\* the if block); a "guarded" screenshot sits in an inner try/except.  A count
\* statement assigns its result to the local variable "var"; a description that
\* is an f-string is written as the text before the variable, the variable and
\* the text after it.
VOT_PROGRAM == <<
    [op |-> "goto"],
    [op |-> "shot", name |-> "01-initial-load", description |-> "Initial CUI load"],
    [op |-> "tabs"],
    [op |-> "shot", name |-> "02-virtual-office-loaded",
     description |-> "Virtual Office tab active"],
    [op |-> "verify", selector |-> <<"button:has-text('Dashboard')">>, name |-> "Dashboard Button"],
    [op |-> "verify", selector |-> <<"button:has-text('Office')">>, name |-> "Office Button"],
    [op |-> "verify", selector |-> <<"button:has-text('Tasks')">>, name |-> "Tasks Button"],
    [op |-> "verify", selector |-> <<"button:has-text('Reviews')">>, name |-> "Reviews Button"],
    [op |-> "verify", selector |-> <<"button:has-text('Knowledge')">>, name |-> "Knowledge Button"],
    [op |-> "verify", selector |-> <<"button:has-text('Agents')">>, name |-> "Agents Button"],
    [op |-> "verify", selector |-> <<"text=Live Activity">>, name |-> "Live Activity Panel Header"],
    [op |-> "verify", selector |-> <<"button:has-text('Agent Grid')">>, name |-> "Agent Grid Button"],
    [op |-> "verify", selector |-> <<"text=Action Items">>, name |-> "Action Items Panel"],
    [op |-> "shot", name |-> "03-three-panel-layout",
     description |-> "Complete three-panel layout"],
    [op |-> "click_grid"],
    [op |-> "count", selector |-> <<".agent-card", ",", " ", "[data-agent-card]">>,
     name |-> "Agent Cards", var |-> "agent_count"],
    [op |-> "verify",
     selector |-> <<"input[placeholder*='Search']", ",", " ", "input[placeholder*='agents']">>,
     name |-> "Agent Search Input"],
    [op |-> "shot", name |-> "04-agent-grid",
     fdescription |-> <<"Agent Grid with ", "agent_count", " agents">>],
    [op |-> "verify", selector |-> <<"text=PENDING">>, name |-> "PENDING Indicator",
     else |-> 23],
    [op |-> "count", selector |-> <<"text=/PENDING.*\\([0-9]+\\)/">>,
     name |-> "Pending Items Count", var |-> "pending_count"],
    [op |-> "approval"],
    [op |-> "shot", name |-> "05-business-approval-opened",
     description |-> "Business Approval item opened", guarded |-> TRUE],
    [op |-> "count", selector |-> <<".activity-event", ",", " ", "[data-activity]">>,
     name |-> "Activity Events", var |-> "activity_count"],
    [op |-> "verify", selector |-> <<"text=/[0-9]+m ago|[0-9]+h ago|Just now/">>,
     name |-> "Timestamp Indicators"],
    [op |-> "shot", name |-> "06-activity-stream",
     fdescription |-> <<"Activity Stream with ", "activity_count", " events">>],
    [op |-> "views"],
    [op |-> "modal"],
    [op |-> "shot", name |-> "10-final-complete-state",
     description |-> "Final complete state"] >>

VOT_At(op) ==
    /\ script = "virtual-office-test"
    /\ pc = "run"
    /\ VOT_PROGRAM[i].op = op

\* Where the try block goes after statement i: to statement next, out of the
\* block after the last one, to the except clause when the statement raised.
VOT_Continue(next, raised) ==
    IF raised THEN pc' = "finally" /\ i' = i
    ELSE IF next > Len(VOT_PROGRAM) THEN pc' = "finally" /\ i' = i
    ELSE pc' = "run" /\ i' = next

\* A failing page call is charged to the fault budget of the run.
Charge(n) == faults + n <= MaxFaults /\ faults' = faults + n

\* async with async_playwright(), launch, new_context, new_page: before the try.
\* An exception leaves the async with block: the driver stops and closes the
\* browser if it was launched.
VOT_Launch ==
    /\ script = "virtual-office-test"
    /\ pc = "start"
    /\ \E outcome \in {"ok", "launch_raises", "context_raises", "page_raises"} :
         /\ browser' = IF outcome = "launch_raises" THEN "none"
                       ELSE IF outcome = "ok" THEN "open" ELSE "closed"
         /\ launches' = IF outcome = "launch_raises" THEN launches ELSE launches + 1
         /\ pw' = IF outcome = "ok" THEN "running" ELSE "stopped"
         /\ pc' = IF outcome = "ok" THEN "run" ELSE "raised"
         /\ obs' = [op |-> "launch", outcome |-> outcome]
    /\ UNCHANGED <<script, env, client, i, j, results, screenshots, history,
                   failed, report, ret, found, faults, loc>>

\* await page.goto(BASE_URL, wait_until='networkidle')
VOT_Navigate ==
    /\ VOT_At("goto")
    /\ \E ok \in BOOLEAN, te \in EventTimes :
         /\ obs' = [op |-> "goto", wait |-> "event", url |-> LOCAL_URL,
                    eventAt |-> te, elapsed |-> te, raised |-> ~ok]
         /\ failed' = (failed \/ ~ok)
         /\ Charge(IF ok THEN 0 ELSE 1)
         /\ VOT_Continue(i + 1, ~ok)
    /\ UNCHANGED <<script, launches, env, client, pw, browser, j, results, screenshots,
                   history, report, ret, found, loc>>

\* wait_and_screenshot: sleep 1.5 s, page.screenshot, append the record.
\* A raising page.screenshot propagates to the caller.
VOT_WaitAndScreenshot(shots, name, description, ok) ==
    [raised |-> ~ok,
     screenshots |-> IF ok
                     THEN Append(shots, [name |-> name, path |-> name,
                                         description |-> description])
                     ELSE shots]

\* One wait_and_screenshot statement; an f-string description is formatted
\* with the local variable it names.
VOT_Shot ==
    /\ VOT_At("shot")
    /\ \E ok \in BOOLEAN :
         LET stmt == VOT_PROGRAM[i]
             description ==
                 IF "description" \in DOMAIN stmt THEN stmt.description
                 ELSE stmt.fdescription[1] \o ToString(loc[stmt.fdescription[2]])
                                           \o stmt.fdescription[3]
             r == VOT_WaitAndScreenshot(screenshots, stmt.name, description, ok)
             guarded == Get(VOT_PROGRAM[i], "guarded", FALSE)
         IN  /\ screenshots' = r.screenshots
             /\ obs' = [op |-> "screenshot", targeted |-> FALSE, calls |-> <<"page.screenshot">>,
                        raised |-> r.raised, path |-> IF ok THEN VOT_PROGRAM[i].name ELSE None]
             /\ failed' = (failed \/ ~ok)
             /\ Charge(IF ok THEN 0 ELSE 1)
             /\ VOT_Continue(i + 1, r.raised /\ ~guarded)
    /\ UNCHANGED <<script, launches, env, client, pw, browser, j, results, history, report,
                   ret, found, loc>>

\* The Virtual Office tab: page.click(selector, timeout=2000) for each
\* selector until one click works; then asyncio.sleep(3).
VOT_Tabs ==
    /\ VOT_At("tabs")
    /\ \E works \in SUBSET (1..Len(VOT_virtual_office_selectors)) :
         LET tried == TrySelectors(VOT_virtual_office_selectors, works)
             nfail == Cardinality({k \in 1..Len(tried) : ~tried[k].ok})
         IN  /\ obs' = [op |-> "select", list |-> VOT_virtual_office_selectors,
                        tried |-> tried, clicked |-> AnyOk(tried)]
             /\ found' = AnyOk(tried)
             /\ failed' = (failed \/ nfail > 0)
             /\ Charge(IF nfail > 0 THEN 1 ELSE 0)
    /\ VOT_Continue(i + 1, FALSE)
    /\ UNCHANGED <<script, launches, env, client, pw, browser, j, results, screenshots,
                   history, report, ret, loc>>

\* A verify_element that records a third status for a missing element.
VOT_VerifyElement_Error(res, selector, name, ok) ==
    [ret |-> ok,
     results |-> Append(res, [test |-> name,
                              status |-> IF ok THEN "PASS" ELSE "ERROR",
                              selector |-> selector])]

\* verify_element: one result entry, PASS when the selector shows up within
\* the timeout, FAIL on any exception.
VOT_VerifyElement(res, selector, name, ok) ==
    [ret |-> ok,
     results |-> Append(res, [test |-> name,
                              status |-> IF ok THEN "PASS" ELSE "FAIL",
                              selector |-> selector])]

VOT_Verify ==
    /\ VOT_At("verify")
    /\ \E ok \in BOOLEAN :
         LET r == VOT_VerifyElement(results, VOT_PROGRAM[i].selector,
                                    VOT_PROGRAM[i].name, ok)
         IN  /\ results' = r.results
             /\ obs' = [op |-> "verify", ret |-> r.ret]
             /\ failed' = (failed \/ ~ok)
             /\ Charge(IF ok THEN 0 ELSE 1)
             /\ VOT_Continue(IF r.ret THEN i + 1 ELSE Get(VOT_PROGRAM[i], "else", i + 1), FALSE)
    /\ UNCHANGED <<script, launches, env, client, pw, browser, j, screenshots, history,
                   report, ret, found, loc>>

\* count_elements: one result entry, PASS with the count, FAIL with 0 on any
\* exception.  n = CountRaises stands for locator.count() raising.
VOT_CountElements(res, name, n) ==
    [ret |-> IF n = CountRaises THEN 0 ELSE n,
     results |-> Append(res, [test |-> name,
                              status |-> IF n = CountRaises THEN "FAIL" ELSE "PASS",
                              count |-> IF n = CountRaises THEN 0 ELSE n])]

VOT_Count ==
    /\ VOT_At("count")
    /\ \E n \in Counts \cup {CountRaises} :
         LET r == VOT_CountElements(results, VOT_PROGRAM[i].name, n)
         IN  /\ results' = r.results
             /\ obs' = [op |-> "count", ret |-> r.ret]
             /\ loc' = [v \in DOMAIN loc \cup {VOT_PROGRAM[i].var} |->
                          IF v = VOT_PROGRAM[i].var THEN r.ret ELSE loc[v]]
             /\ failed' = (failed \/ n = CountRaises)
             /\ Charge(IF n = CountRaises THEN 1 ELSE 0)
    /\ VOT_Continue(i + 1, FALSE)
    /\ UNCHANGED <<script, launches, env, client, pw, browser, j, screenshots, history,
                   report, ret, found>>

\* try: page.click("button:has-text('Agent Grid')"); sleep(1)  except: pass
VOT_ClickGrid ==
    /\ VOT_At("click_grid")
    /\ \E ok \in BOOLEAN :
         /\ obs' = [op |-> "click", target |-> "Agent Grid", clicked |-> ok]
         /\ failed' = (failed \/ ~ok)
         /\ Charge(IF ok THEN 0 ELSE 1)
    /\ VOT_Continue(i + 1, FALSE)
    /\ UNCHANGED <<script, launches, env, client, pw, browser, j, results, screenshots,
                   history, report, ret, found, loc>>

\* The approval item: for each selector, locator(selector).all(); when it
\* finds elements the first is clicked and the loop ends; an empty list or an
\* exception goes on to the next selector.
VOT_Approval ==
    /\ VOT_At("approval")
    /\ \E works \in SUBSET (1..Len(VOT_approval_selectors)) :
         LET tried == TrySelectors(VOT_approval_selectors, works)
             nfail == Cardinality({k \in 1..Len(tried) : ~tried[k].ok})
         IN  /\ obs' = [op |-> "select", list |-> VOT_approval_selectors,
                        tried |-> tried, clicked |-> AnyOk(tried)]
             /\ failed' = (failed \/ nfail > 0)
             /\ Charge(IF nfail > 0 THEN 1 ELSE 0)
    /\ VOT_Continue(i + 1, FALSE)
    /\ UNCHANGED <<script, launches, env, client, pw, browser, j, results, screenshots,
                   history, report, ret, found, loc>>

\* View switching, one try block: click Org Chart, screenshot 07, click RACI,
\* screenshot 08, click Agent Grid.  reach is the number of these five calls
\* that complete; the first that raises ends the block (logged as a warning).
VOT_SwitchViews(shots, reach) ==
    LET s1 == IF reach >= 2
              THEN VOT_WaitAndScreenshot(shots, "07-org-chart-view",
                                         "Org Chart view", TRUE).screenshots
              ELSE shots
    IN  IF reach >= 4
        THEN VOT_WaitAndScreenshot(s1, "08-raci-matrix", "RACI Matrix view",
                                   TRUE).screenshots
        ELSE s1

VOT_Views ==
    /\ VOT_At("views")
    /\ \E reach \in 0..5 :
         /\ screenshots' = VOT_SwitchViews(screenshots, reach)
         /\ obs' = [op |-> "views", reach |-> reach]
         /\ failed' = (failed \/ reach < 5)
         /\ Charge(IF reach < 5 THEN 1 ELSE 0)
    /\ VOT_Continue(i + 1, FALSE)
    /\ UNCHANGED <<script, launches, env, client, pw, browser, j, results, history, report,
                   ret, found, loc>>

VOT_MODAL_TABS == <<
    [selector |-> <<"button:has-text('Overview')">>, name |-> "Overview Tab"],
    [selector |-> <<"button:has-text('Inbox')">>, name |-> "Inbox Tab"],
    [selector |-> <<"button:has-text('Worklist')">>, name |-> "Worklist Tab"],
    [selector |-> <<"button:has-text('Knowledge')">>, name |-> "Knowledge Tab"] >>

RECURSIVE VOT_VerifyAll(_, _, _, _)
VOT_VerifyAll(res, tabs, k, oks) ==
    IF k > Len(tabs) THEN res
    ELSE VOT_VerifyAll(VOT_VerifyElement(res, tabs[k].selector, tabs[k].name,
                                         k \in oks).results,
                       tabs, k + 1, oks)

\* Agent Detail Modal, one try block: the first card is looked up and clicked
\* (cardOk), the modal verified (modalOk); if it is there the four tabs are
\* verified (oks), screenshot 09 taken (shotOk) and the modal closed.
VOT_AgentModal(res, shots, cardOk, modalOk, oks, shotOk) ==
    IF ~cardOk THEN [results |-> res, screenshots |-> shots]
    ELSE LET r1 == VOT_VerifyElement(res, <<"[role='dialog']", ",", " ", ".modal">>,
                                     "Agent Detail Modal", modalOk)
         IN  IF ~r1.ret THEN [results |-> r1.results, screenshots |-> shots]
             ELSE [results |-> VOT_VerifyAll(r1.results, VOT_MODAL_TABS, 1, oks),
                   screenshots |-> VOT_WaitAndScreenshot(shots, "09-agent-detail-modal",
                                                         "Agent Detail Modal",
                                                         shotOk).screenshots]

VOT_Modal ==
    /\ VOT_At("modal")
    /\ \E cardOk \in BOOLEAN, modalOk \in BOOLEAN, shotOk \in BOOLEAN,
          oks \in SUBSET (1..Len(VOT_MODAL_TABS)) :
         LET r == VOT_AgentModal(results, screenshots, cardOk, modalOk, oks, shotOk)
             nfail == IF ~cardOk \/ ~modalOk THEN 1
                      ELSE (Len(VOT_MODAL_TABS) - Cardinality(oks))
                           + (IF shotOk THEN 0 ELSE 1)
         IN  /\ (~cardOk => modalOk /\ shotOk /\ oks = {})
             /\ (cardOk /\ ~modalOk => shotOk /\ oks = {})
             /\ results' = r.results
             /\ screenshots' = r.screenshots
             /\ obs' = [op |-> "modal", opened |-> cardOk /\ modalOk]
             /\ failed' = (failed \/ nfail > 0)
             /\ Charge(nfail)
    /\ VOT_Continue(i + 1, FALSE)
    /\ UNCHANGED <<script, launches, env, client, pw, browser, j, history, report, ret, found, loc>>

\* except Exception (logged) and finally: await browser.close(); the async
\* with block ends.
VOT_Close ==
    /\ script = "virtual-office-test"
    /\ pc = "finally"
    /\ browser' = "closed"
    /\ pw' = "stopped"
    /\ obs' = [op |-> "browser.close"]
    /\ pc' = "summary"
    /\ UNCHANGED <<script, launches, env, client, i, j, results, screenshots, history,
                   failed, report, ret, found, faults, loc>>

\* generate_summary: the dictionary dumped to the report file.
VOT_Summary(res, shots) ==
    [written |-> TRUE,
     total_tests |-> Len(res),
     passed |-> Cardinality({k \in 1..Len(res) : Get(res[k], "status", None) = "PASS"}),
     failed |-> Cardinality({k \in 1..Len(res) : Get(res[k], "status", None) = "FAIL"}),
     screenshots |-> Len(shots),
     results |-> res,
     screenshots_list |-> shots]

VOT_GenerateSummary ==
    /\ script = "virtual-office-test"
    /\ pc = "summary"
    /\ report' = VOT_Summary(results, screenshots)
    /\ obs' = [op |-> "generate_summary"]
    /\ pc' = "done"
    /\ UNCHANGED <<script, launches, env, client, pw, browser, i, j, results, screenshots,
                   history, failed, ret, found, faults, loc>>

-----------------------------------------------------------------------------
(* test-with-screenshot-api.py                                             *)

API_panels_to_test == <<
    <<"full", "Full page overview">>,
    <<"virtual-office", "Virtual Office complete panel">>,
    <<"activity-stream", "Activity Stream (left panel)">>,
    <<"agent-grid", "Agent Grid (center panel)">>,
    <<"action-items", "Action Items (right panel)">>,
    <<"business-approval", "Business Approval panel">> >>

\* How one screenshot request can end.
API_Outcomes == {"saved", "download_failed", "not_ok", "http_error", "exception"}

\* request_screenshot: exactly one result entry per call; a saved image also
\* adds a screenshot record.
API_RequestScreenshot(res, shots, panel_name, outcome) ==
    IF outcome = "saved"
    THEN [ret |-> panel_name,
          screenshots |-> Append(shots, [panel |-> panel_name, file |-> panel_name]),
          results |-> Append(res, [test |-> panel_name, status |-> "SUCCESS"])]
    ELSE [ret |-> None,
          screenshots |-> shots,
          results |-> Append(res, [test |-> panel_name, status |-> "FAIL",
                                   error |-> outcome])]

\* run_tests, one turn of the loop over panels_to_test.
API_Request ==
    /\ script = "api-tester"
    /\ pc = "start"
    /\ \E outcome \in API_Outcomes :
         LET r == API_RequestScreenshot(results, screenshots,
                                        API_panels_to_test[i][1], outcome)
         IN  /\ results' = r.results
             /\ screenshots' = r.screenshots
             /\ obs' = [op |-> "request", ret |-> r.ret]
             /\ failed' = (failed \/ outcome # "saved")
    /\ i' = IF i = Len(API_panels_to_test) THEN 1 ELSE i + 1
    /\ pc' = IF i = Len(API_panels_to_test) THEN "summary" ELSE "start"
    /\ UNCHANGED <<script, launches, env, client, pw, browser, j, history, report, ret,
                   found, faults, loc>>

\* generate_summary: the dictionary dumped to the report file, and the
\* value returned (passed == len(self.results)).
API_Summary(res, shots) ==
    LET passed == Cardinality({k \in 1..Len(res) : Get(res[k], "status", None) = "SUCCESS"})
    IN  [written |-> TRUE,
         total_tests |-> Len(res), passed |-> passed, failed |-> Len(res) - passed,
         screenshots |-> shots, results |-> res,
         returns |-> IF passed = Len(res) THEN "True" ELSE "False"]

\* run_tests ends with the call self.generate_summary() and has no return
\* statement: whatever generate_summary returned, run_tests returns None.
API_RunTestsReturn(summaryReturned) == None

\* __main__: exit(0 if success else 1); None and False are falsy.
API_ExitStatus(success) == IF success = "True" THEN 0 ELSE 1

API_GenerateSummary ==
    /\ script = "api-tester"
    /\ pc = "summary"
    /\ report' = API_Summary(results, screenshots)
    /\ obs' = [op |-> "generate_summary"]
    /\ pc' = "exit"
    /\ UNCHANGED <<script, launches, env, client, pw, browser, i, j, results, screenshots,
                   history, failed, ret, found, faults, loc>>

API_Exit ==
    /\ script = "api-tester"
    /\ pc = "exit"
    /\ ret' = API_ExitStatus(API_RunTestsReturn(report.returns))
    /\ obs' = [op |-> "exit"]
    /\ pc' = "done"
    /\ UNCHANGED <<script, launches, env, client, pw, browser, i, j, results, screenshots,
                   history, failed, report, found, faults, loc>>

-----------------------------------------------------------------------------
(* test-visual-office.py                                                   *)

TVO_PANELS_TO_TEST == <<
    [name |-> "virtual-office", selector |-> <<"[data-panel='virtual-office']">>,
     tabs |-> <<"grid", "org", "raci", "business">>,
     expectations |-> <<
        "Activity Stream should show recent events",
        "Agent Grid should display 17 agent cards",
        "Business Approval should show 4 pending items",
        "Action Items panel visible on right">>],
    [name |-> "business-approval", selector |-> <<".business-approval-panel">>,
     expectations |-> <<
        "List of 4 pending reports on left side",
        "Markdown content visible on right side",
        "Approve and Reject buttons visible",
        "Comment input field present">>],
    [name |-> "activity-stream", selector |-> <<".activity-stream">>,
     expectations |-> <<
        "At least 5 activity events visible",
        "Timestamps showing (e.g., '2m ago', '5h ago')",
        "Agent names and actions displayed",
        "Icons for different action types (U+2705, U+1F4DD, U+274C)">>] >>

TVO_selectors == <<
    <<"button:has-text('Virtual Office')">>,
    <<"[data-tab='virtual-office']">>,
    <<"text=Virtual Office">> >>

\* Module level: AI_BRIDGE_KEY = os.getenv("AI_BRIDGE_API_KEY")
TVO_AI_BRIDGE_KEY(e) == e.AI_BRIDGE_API_KEY

\* capture_screenshot(page, panel_name, selector): the element when a selector
\* is given (wait_for_selector 3000 ms, element.screenshot), the full page
\* otherwise.  Any exception is caught and None returned: there is no second
\* attempt on the page.  selector <<>> is None.
TVO_CaptureScreenshot(panel_name, selector, elementOk, pageOk) ==
    LET targeted == selector # <<>>
        ok == IF targeted THEN elementOk ELSE pageOk
    IN  [op |-> "screenshot", name |-> panel_name, targeted |-> targeted,
         elementFailed |-> targeted /\ ~elementOk,
         calls |-> IF targeted THEN <<"element.screenshot">> ELSE <<"page.screenshot">>,
         raised |-> FALSE,
         path |-> IF ok THEN panel_name ELSE None]

\* analyze_screenshot_with_vision: skipped without AI_BRIDGE_KEY; any
\* exception is caught and None returned.
TVO_AnalyzeScreenshotWithVision(key, answer) ==
    IF ~Truthy(key) THEN [called |-> FALSE, result |-> NoAnalysis]
    ELSE IF answer = IoError THEN [called |-> FALSE, result |-> NoAnalysis]
    ELSE IF answer = ApiError THEN [called |-> TRUE, result |-> NoAnalysis]
    ELSE [called |-> TRUE, result |-> answer]

\* The call sites: if screenshot_path and AI_BRIDGE_KEY: analyze(...)
TVO_MaybeAnalyze(path, key, answer) ==
    IF path # None /\ Truthy(key)
    THEN TVO_AnalyzeScreenshotWithVision(key, answer)
    ELSE [called |-> FALSE, result |-> NoAnalysis]

TVO_At(p) == script = "visual-office" /\ pc = p

\* async with async_playwright(), launch, new_context, new_page: before the try.
\* An exception leaves the async with block: the driver stops and closes the
\* browser if it was launched.
TVO_Launch ==
    /\ TVO_At("start")
    /\ \E outcome \in {"ok", "launch_raises", "context_raises", "page_raises"} :
         /\ browser' = IF outcome = "launch_raises" THEN "none"
                       ELSE IF outcome = "ok" THEN "open" ELSE "closed"
         /\ launches' = IF outcome = "launch_raises" THEN launches ELSE launches + 1
         /\ pw' = IF outcome = "ok" THEN "running" ELSE "stopped"
         /\ pc' = IF outcome = "ok" THEN "goto" ELSE "raised"
         /\ obs' = [op |-> "launch", outcome |-> outcome]
    /\ UNCHANGED <<script, env, client, i, j, results, screenshots, history,
                   failed, report, ret, found, faults, loc>>

\* page.goto(BASE_URL, wait_until='networkidle'); asyncio.sleep(2)
TVO_Navigate ==
    /\ TVO_At("goto")
    /\ \E ok \in BOOLEAN, te \in EventTimes :
         /\ obs' = IF ok THEN Sleep(2, te)
                   ELSE [op |-> "goto", wait |-> "event", url |-> LOCAL_URL,
                         eventAt |-> te, elapsed |-> te, raised |-> TRUE]
         /\ failed' = (failed \/ ~ok)
         /\ pc' = IF ok THEN "tabs" ELSE "finally"
    /\ UNCHANGED <<script, launches, env, client, pw, browser, i, j, results, screenshots,
                   history, report, ret, found, faults, loc>>

\* The tab selectors, page.click(selector, timeout=2000) each, until one works.
TVO_Tabs ==
    /\ TVO_At("tabs")
    /\ \E works \in SUBSET (1..Len(TVO_selectors)) :
         LET tried == TrySelectors(TVO_selectors, works)
         IN  /\ obs' = [op |-> "select", list |-> TVO_selectors, tried |-> tried,
                        clicked |-> AnyOk(tried)]
             /\ found' = AnyOk(tried)
             /\ failed' = (failed \/ \E k \in 1..Len(tried) : ~tried[k].ok)
             /\ pc' = IF AnyOk(tried) THEN "panels" ELSE "not_clicked"
    /\ UNCHANGED <<script, launches, env, client, pw, browser, i, j, results, screenshots,
                   history, report, ret, faults, loc>>

\* if not clicked: full-page screenshot, analysis, browser.close(), return.
\* The finally clause still runs after the return.
TVO_NotClicked ==
    /\ TVO_At("not_clicked")
    /\ \E pageOk \in BOOLEAN, answer \in {IoError, ApiError} \cup Analyses :
         LET c == TVO_CaptureScreenshot("full-page", <<>>, TRUE, pageOk)
             a == TVO_MaybeAnalyze(c.path, TVO_AI_BRIDGE_KEY(env), answer)
         IN  obs' = [op |-> "screenshot+analyze", name |-> c.name, targeted |-> c.targeted,
                     elementFailed |-> c.elementFailed, calls |-> c.calls,
                     raised |-> FALSE, path |-> c.path, called |-> a.called,
                     result |-> a.result]
    /\ browser' = "closed"
    /\ pc' = "finally_return"
    /\ UNCHANGED <<script, launches, env, client, pw, i, j, results, screenshots, history,
                   failed, report, ret, found, faults, loc>>

\* One turn of the loop over PANELS_TO_TEST: capture the panel; continue when
\* there is no path; else analyse when the key is set.
TVO_Panel ==
    /\ TVO_At("panels")
    /\ \E elementOk \in BOOLEAN, answer \in {IoError, ApiError} \cup Analyses :
         LET panel == TVO_PANELS_TO_TEST[i]
             c == TVO_CaptureScreenshot(panel.name, Get(panel, "selector", <<>>),
                                        elementOk, TRUE)
             a == TVO_MaybeAnalyze(c.path, TVO_AI_BRIDGE_KEY(env), answer)
         IN  /\ obs' = [op |-> "screenshot+analyze", name |-> c.name,
                        targeted |-> c.targeted, elementFailed |-> c.elementFailed,
                        calls |-> c.calls, raised |-> FALSE, path |-> c.path,
                        called |-> a.called, result |-> a.result, panel |-> i]
             /\ failed' = (failed \/ c.path = None)
    /\ i' = IF i = Len(TVO_PANELS_TO_TEST) THEN 1 ELSE i + 1
    /\ pc' = IF i = Len(TVO_PANELS_TO_TEST) THEN "final" ELSE "panels"
    /\ UNCHANGED <<script, launches, env, client, pw, browser, j, results, screenshots,
                   history, report, ret, found, faults, loc>>

\* The final full-page screenshot and its analysis.
TVO_Final ==
    /\ TVO_At("final")
    /\ \E pageOk \in BOOLEAN, answer \in {IoError, ApiError} \cup Analyses :
         LET c == TVO_CaptureScreenshot("virtual-office-final", <<>>, TRUE, pageOk)
             a == TVO_MaybeAnalyze(c.path, TVO_AI_BRIDGE_KEY(env), answer)
         IN  /\ obs' = [op |-> "screenshot+analyze", name |-> c.name,
                        targeted |-> c.targeted, elementFailed |-> c.elementFailed,
                        calls |-> c.calls, raised |-> FALSE, path |-> c.path,
                        called |-> a.called, result |-> a.result]
             /\ failed' = (failed \/ c.path = None)
    /\ pc' = "finally"
    /\ UNCHANGED <<script, launches, env, client, pw, browser, i, j, results, screenshots,
                   history, report, ret, found, faults, loc>>

\* except Exception (printed) and finally: await browser.close().
TVO_Close ==
    /\ script = "visual-office"
    /\ pc \in {"finally", "finally_return"}
    /\ browser' = "closed"
    /\ pw' = "stopped"
    /\ obs' = [op |-> "browser.close"]
    /\ pc' = IF pc = "finally" THEN "done" ELSE "returned"
    /\ UNCHANGED <<script, launches, env, client, i, j, results, screenshots, history,
                   failed, report, ret, found, faults, loc>>

-----------------------------------------------------------------------------
(* click-team-workspace.py and capture-with-click.py                       *)
(* Two copies of one procedure without any try/finally: they differ in how *)
(* the tab is activated.  The shared statements are written once, with the *)
(* script as a parameter.                                                  *)

\* Variables neither script touches.
Cap_Frame == UNCHANGED <<script, launches, env, client, j, results, history, report, ret,
                         faults, loc>>

\* An exception leaves capture(): no statement closes the browser, the async
\* with block stops the driver and the driver closes the browser.
Cap_Raise ==
    /\ pc' = "raised"
    /\ pw' = "stopped"
    /\ browser' = "closed"

\* browser.close(); return  (or the end of the function)
Cap_CloseAnd(final) ==
    /\ pc' = final
    /\ pw' = "stopped"
    /\ browser' = "closed"

\* async with async_playwright(); chromium.launch(); browser.new_page()
\* An exception leaves the async with block: the driver stops and closes the
\* browser if it was launched.
Cap_Launch(scr) ==
    /\ script = scr
    /\ pc = "start"
    /\ \E outcome \in {"ok", "launch_raises", "page_raises"} :
         /\ browser' = IF outcome = "launch_raises" THEN "none"
                       ELSE IF outcome = "ok" THEN "open" ELSE "closed"
         /\ launches' = IF outcome = "launch_raises" THEN launches ELSE launches + 1
         /\ pw' = IF outcome = "ok" THEN "running" ELSE "stopped"
         /\ pc' = IF outcome = "ok" THEN "goto" ELSE "raised"
         /\ obs' = [op |-> "launch", outcome |-> outcome]
    /\ UNCHANGED <<i, screenshots, failed, found>>
    /\ UNCHANGED <<script, env, client, j, results, history, report, ret, faults, loc>>

\* page.goto(url, timeout=60000); asyncio.sleep(15)
Cap_Goto(scr, url) ==
    /\ script = scr
    /\ pc = "goto"
    /\ \E ok \in BOOLEAN, te \in EventTimes :
         /\ obs' = IF ok THEN Sleep(15, te)
                   ELSE [op |-> "goto", wait |-> "event", url |-> url, eventAt |-> te,
                         elapsed |-> te, raised |-> TRUE, guarded |-> FALSE]
         /\ failed' = (failed \/ ~ok)
         /\ IF ok THEN pc' = "dialog" /\ UNCHANGED <<pw, browser>> ELSE Cap_Raise
    /\ UNCHANGED <<i, screenshots, found>>
    /\ Cap_Frame

\* The welcome dialog: query_selector, click, sleep, all in try/except: pass.
Cap_Dialog(scr, next) ==
    /\ script = scr
    /\ pc = "dialog"
    /\ \E outcome \in {"absent", "clicked", "raises"} :
         /\ obs' = [op |-> "dialog", outcome |-> outcome, raised |-> outcome = "raises",
                    guarded |-> TRUE]
         /\ failed' = (failed \/ outcome = "raises")
    /\ pc' = next
    /\ UNCHANGED <<pw, browser, i, screenshots, found>>
    /\ Cap_Frame

\* page.screenshot(path=..., full_page=True), outside any try block.
Cap_Screenshot(shots, filename, ok) == IF ok THEN Append(shots, filename) ELSE shots

\* agent_grid = query_selector('button:has-text("Agent Grid")'); without the
\* button: fallback screenshot, browser.close(), return.
Cap_AgentGrid(scr, fallback) ==
    /\ script = scr
    /\ pc = "agent_grid"
    /\ \E outcome \in {"found", "absent", "query_raises"}, shotOk \in BOOLEAN :
         /\ (outcome # "absent" => shotOk)
         /\ obs' = [op |-> "agent_grid", outcome |-> outcome, guarded |-> FALSE,
                    raised |-> (outcome = "query_raises" \/ ~shotOk)]
         /\ failed' = (failed \/ outcome # "found")
         /\ screenshots' = IF outcome = "absent"
                           THEN Cap_Screenshot(screenshots, fallback, shotOk)
                           ELSE screenshots
         /\ IF outcome = "query_raises" \/ ~shotOk THEN Cap_Raise
            ELSE IF outcome = "absent" THEN Cap_CloseAnd("returned")
            ELSE pc' = "grid" /\ UNCHANGED <<pw, browser>>
    /\ UNCHANGED <<i, found>>
    /\ Cap_Frame

\* 1. agent_grid.click(); sleep(3); screenshot 01
Cap_Grid(scr) ==
    /\ script = scr
    /\ pc = "grid"
    /\ \E clickOk \in BOOLEAN, shotOk \in BOOLEAN :
         /\ (~clickOk => shotOk)
         /\ obs' = [op |-> "grid", guarded |-> FALSE, raised |-> ~(clickOk /\ shotOk)]
         /\ failed' = (failed \/ ~(clickOk /\ shotOk))
         /\ screenshots' = IF clickOk
                           THEN Cap_Screenshot(screenshots,
                                               "01-dashboard-agent-grid.png", shotOk)
                           ELSE screenshots
         /\ IF clickOk /\ shotOk THEN pc' = "buttons" /\ UNCHANGED <<pw, browser>>
            ELSE Cap_Raise
    /\ i' = 1
    /\ UNCHANGED found
    /\ Cap_Frame

\* Views 2 to 9: the button is looked up, clicked when it is there, and the
\* page captured in either case.
Cap_BUTTONS == <<
    <<"Org Chart", "02-dashboard-org-chart.png">>,
    <<"RACI", "03-dashboard-raci-matrix.png">>,
    <<"Office", "04-office-view.png">>,
    <<"Tasks", "05-tasks-view.png">>,
    <<"Reviews", "06-reviews-view.png">>,
    <<"Knowledge", "07-knowledge-view.png">>,
    <<"Agents", "08-agents-view.png">>,
    <<"Chat", "09-chat-view.png">> >>

Cap_Button(scr) ==
    /\ script = scr
    /\ pc = "buttons"
    /\ \E outcome \in {"absent", "clicked", "query_raises", "click_raises", "shot_raises"} :
         LET raises == outcome \in {"query_raises", "click_raises", "shot_raises"}
         IN  /\ obs' = [op |-> "button", button |-> Cap_BUTTONS[i][1], outcome |-> outcome,
                        guarded |-> FALSE, raised |-> raises]
             /\ failed' = (failed \/ outcome # "clicked")
             /\ screenshots' = Cap_Screenshot(screenshots, Cap_BUTTONS[i][2], ~raises)
             /\ IF raises THEN Cap_Raise /\ i' = i
                ELSE /\ UNCHANGED <<pw, browser>>
                     /\ i' = IF i = Len(Cap_BUTTONS) THEN 1 ELSE i + 1
                     /\ pc' = IF i = Len(Cap_BUTTONS) THEN "close" ELSE "buttons"
    /\ UNCHANGED found
    /\ Cap_Frame

\* await browser.close() as the last page statement of capture().
Cap_Close(scr) ==
    /\ script = scr
    /\ pc = "close"
    /\ obs' = [op |-> "browser.close"]
    /\ Cap_CloseAnd("done")
    /\ UNCHANGED <<i, screenshots, failed, found>>
    /\ Cap_Frame

CTW == "click-team-workspace"

CTW_Launch == Cap_Launch(CTW)
CTW_Goto == Cap_Goto(CTW, "http://localhost:4005")
CTW_Dialog == Cap_Dialog(CTW, "team")

\* The Team workspace tab: click 'text=Team' (10 s); when that raises, click
\* 'text=Team (Screenshots)' (5 s); when that raises too: screenshot
\* 00-no-team-tab, browser.close(), return.
CTW_Team ==
    /\ script = CTW
    /\ pc = "team"
    /\ \E works \in SUBSET (1..2), shotOk \in BOOLEAN :
         LET tried == TrySelectors(<< <<"text=Team">>, <<"text=Team (Screenshots)">> >>, works)
             clicked == AnyOk(tried)
         IN  /\ (clicked => shotOk)
             /\ obs' = [op |-> "team", list |-> << <<"text=Team">>, <<"text=Team (Screenshots)">> >>,
                        tried |-> tried, clicked |-> clicked,
                        guarded |-> TRUE, raised |-> ~shotOk]
             /\ found' = clicked
             /\ failed' = (failed \/ 1 \notin works)
             /\ screenshots' = IF clicked THEN screenshots
                               ELSE Cap_Screenshot(screenshots, "00-no-team-tab.png", shotOk)
             /\ IF clicked THEN pc' = "agent_grid" /\ UNCHANGED <<pw, browser>>
                ELSE IF shotOk THEN Cap_CloseAnd("returned")
                ELSE Cap_Raise
    /\ UNCHANGED i
    /\ Cap_Frame

CTW_AgentGrid == Cap_AgentGrid(CTW, "00-after-team-click.png")
CTW_Grid == Cap_Grid(CTW)
CTW_Button == Cap_Button(CTW)
CTW_Close == Cap_Close(CTW)

CWC == "capture-with-click"

CWC_Launch == Cap_Launch(CWC)
CWC_Goto == Cap_Goto(CWC, "http://localhost:4005?project=team")
CWC_Dialog == Cap_Dialog(CWC, "tabs")

\* The FlexLayout tabs: query_selector_all (outside any try), then for each
\* tab inner_text and, for the Virtual Office tab, click and break; a
\* raising tab is skipped.  Without a click: page.click('text=Virtual
\* Office', timeout=5000) in a try/except.  works: the tabs that are the
\* Virtual Office tab and can be clicked; textOk: the text selector works.
CWC_Tabs ==
    /\ script = CWC
    /\ pc = "tabs"
    /\ \E n \in 0..MaxTabs, queryOk \in BOOLEAN, textOk \in BOOLEAN :
       \E works \in SUBSET (1..n) :
         LET tabs == [k \in 1..n |-> <<"tab", k>>]
             tried == TrySelectors(tabs, works)
             clicked == AnyOk(tried) \/ textOk
         IN  /\ (~queryOk => n = 0 /\ textOk)
             /\ (AnyOk(tried) => textOk)
             /\ obs' = [op |-> "tabs", list |-> tabs, tried |-> tried, clicked |-> clicked,
                        guarded |-> queryOk, raised |-> ~queryOk]
             /\ found' = (queryOk /\ clicked)
             /\ failed' = (failed \/ ~queryOk \/ ~AnyOk(tried))
             /\ IF queryOk THEN pc' = "agent_grid" /\ UNCHANGED <<pw, browser>>
                ELSE Cap_Raise
    /\ UNCHANGED <<i, screenshots>>
    /\ Cap_Frame

CWC_AgentGrid == Cap_AgentGrid(CWC, "00-fallback.png")
CWC_Grid == Cap_Grid(CWC)
CWC_Button == Cap_Button(CWC)
CWC_Close == Cap_Close(CWC)

-----------------------------------------------------------------------------
(* test-final-fix.py                                                       *)

TFF == "test-final-fix"

TFF_BASE_URL == "http://localhost:4005?project=team"

TFF_elements_to_check == <<
    [selector |-> <<"button:has-text('Dashboard')">>, name |-> "Dashboard button"],
    [selector |-> <<"button:has-text('Agent Grid')">>, name |-> "Agent Grid button"],
    [selector |-> <<"button:has-text('Org Chart')">>, name |-> "Org Chart button"],
    [selector |-> <<"button:has-text('RACI')">>, name |-> "RACI button"],
    [selector |-> <<"div:has-text('Live Activity')">>, name |-> "Activity Stream"],
    [selector |-> <<"div:has-text('PENDING')">>, name |-> "Pending items"] >>

TFF_At(p) == script = TFF /\ pc = p

\* Variables the script has no use for.
TFF_Frame == UNCHANGED <<script, launches, env, client, j, results, history, faults>>

\* async with async_playwright(), launch, new_context, new_page: before the try.
\* An exception leaves the async with block: the driver stops and closes the
\* browser if it was launched.
TFF_Launch ==
    /\ TFF_At("start")
    /\ \E outcome \in {"ok", "launch_raises", "context_raises", "page_raises"} :
         /\ browser' = IF outcome = "launch_raises" THEN "none"
                       ELSE IF outcome = "ok" THEN "open" ELSE "closed"
         /\ launches' = IF outcome = "launch_raises" THEN launches ELSE launches + 1
         /\ pw' = IF outcome = "ok" THEN "running" ELSE "stopped"
         /\ pc' = IF outcome = "ok" THEN "goto" ELSE "raised"
         /\ ret' = IF outcome = "ok" THEN ret ELSE 1
         /\ obs' = [op |-> "launch", outcome |-> outcome]
    /\ UNCHANGED <<i, screenshots, failed, report, found, loc>>
    /\ UNCHANGED <<script, env, client, j, results, history, faults>>

\* await page.goto(BASE_URL, wait_until='networkidle')
TFF_Goto ==
    /\ TFF_At("goto")
    /\ \E ok \in BOOLEAN, te \in EventTimes :
         /\ obs' = [op |-> "goto", wait |-> "event", url |-> TFF_BASE_URL,
                    eventAt |-> te, elapsed |-> te, raised |-> ~ok, guarded |-> FALSE]
         /\ failed' = (failed \/ ~ok)
         /\ pc' = IF ok THEN "initial" ELSE "finally_raise"
    /\ UNCHANGED <<pw, browser, i, screenshots, report, ret, found, loc>>
    /\ TFF_Frame

\* page.screenshot(path=...) and the list of files the run has written.
TFF_Screenshot(shots, filename, ok) == IF ok THEN Append(shots, filename) ELSE shots

\* asyncio.sleep(3); screenshot 01
TFF_Initial ==
    /\ TFF_At("initial")
    /\ \E shotOk \in BOOLEAN, te \in EventTimes :
         /\ obs' = Sleep(3, te)
         /\ screenshots' = TFF_Screenshot(screenshots, "01-initial.png", shotOk)
         /\ failed' = (failed \/ ~shotOk)
         /\ pc' = IF shotOk THEN "tabs" ELSE "finally_raise"
    /\ UNCHANGED <<pw, browser, i, report, ret, found, loc>>
    /\ TFF_Frame

\* The tabs are read in order up to the first whose text holds "Virtual
\* Office"; inner_text is not guarded.  The result is the position of the
\* tab found (0: none) and whether a read raised before that.
RECURSIVE TFF_FindTab(_, _)
TFF_FindTab(texts, k) ==
    IF k > Len(texts) THEN [at |-> 0, raised |-> FALSE, read |-> Len(texts)]
    ELSE IF texts[k] = "raises" THEN [at |-> 0, raised |-> TRUE, read |-> k]
    ELSE IF texts[k] = "Virtual Office" THEN [at |-> k, raised |-> FALSE, read |-> k]
    ELSE TFF_FindTab(texts, k + 1)

\* Step 2: query_selector_all, the search, and "if not virtual_office_tab:
\* return False".
TFF_Tabs ==
    /\ TFF_At("tabs")
    /\ \E n \in 0..MaxTabs, queryOk \in BOOLEAN :
       \E texts \in [1..n -> {"Other", "Virtual Office", "raises"}] :
         LET r == TFF_FindTab(texts, 1)
             raised == ~queryOk \/ r.raised
         IN  /\ (~queryOk => n = 0)
             /\ obs' = [op |-> "find_tab", texts |-> texts, at |-> r.at, read |-> r.read,
                        raised |-> raised, guarded |-> FALSE]
             /\ found' = (~raised /\ r.at # 0)
             /\ failed' = (failed \/ raised \/ r.at = 0)
             /\ pc' = IF raised THEN "finally_raise"
                      ELSE IF r.at = 0 THEN "finally_return"
                      ELSE "approach1"
             /\ report' = IF ~raised /\ r.at = 0
                          THEN [written |-> FALSE, returns |-> FALSE]
                          ELSE report
    /\ UNCHANGED <<pw, browser, i, screenshots, ret, loc>>
    /\ TFF_Frame

\* Approach 1: evaluate, sleep(3), screenshot 02, in one try/except.
TFF_Approach1 ==
    /\ TFF_At("approach1")
    /\ \E outcome \in {"ok", "evaluate_raises", "shot_raises"} :
         /\ obs' = [op |-> "approach1", outcome |-> outcome, raised |-> outcome # "ok",
                    guarded |-> TRUE]
         /\ screenshots' = TFF_Screenshot(screenshots, "02-js-click.png", outcome = "ok")
         /\ failed' = (failed \/ outcome # "ok")
    /\ pc' = "check"
    /\ i' = 1
    /\ loc' = [found_elements |-> <<>>]
    /\ UNCHANGED <<pw, browser, report, ret, found>>
    /\ TFF_Frame

\* A wait that always lasts its whole timeout.
WaitForFunction_Fixed(timeout, te) ==
    [op |-> "wait_for_function", wait |-> "event", limit |-> timeout, eventAt |-> te,
     elapsed |-> timeout, raised |-> ~(te < timeout)]

\* page.wait_for_function(predicate, timeout): returns as soon as the
\* predicate holds in the page, raises TimeoutError when the timeout elapses
\* first.
WaitForFunction(timeout, te) ==
    [op |-> "wait_for_function", wait |-> "event", limit |-> timeout, eventAt |-> te,
     elapsed |-> Min(te, timeout), raised |-> ~(te < timeout)]

\* One pass of "for selector, name in elements_to_check": wait_for_selector
\* with timeout=2000; the name is appended when it returns, a raise is
\* swallowed.
TFF_CheckElement(list, k, te) ==
    LET w == WaitForSelector(TFF_elements_to_check[k].selector, 2000, te)
    IN  [obs |-> w @@ [guarded |-> TRUE],
         list |-> IF w.raised THEN list
                  ELSE Append(list, TFF_elements_to_check[k].name)]

\* Step 4, and the test "len(found_elements) < 3" after its last element.
TFF_Check ==
    /\ TFF_At("check")
    /\ \E te \in EventTimes :
         LET r == TFF_CheckElement(loc.found_elements, i, te)
             last == i = Len(TFF_elements_to_check)
         IN  /\ obs' = r.obs
             /\ loc' = [found_elements |-> r.list]
             /\ failed' = (failed \/ r.obs.raised)
             /\ i' = IF last THEN 1 ELSE i + 1
             /\ pc' = IF ~last THEN "check"
                      ELSE IF Len(r.list) < 3 THEN "approach2"
                      ELSE "approach3"
    /\ UNCHANGED <<pw, browser, screenshots, report, ret, found>>
    /\ TFF_Frame

\* Approach 2: the office panel, its Dashboard button, click, sleep(2),
\* screenshot 03, in one try/except.
TFF_Approach2 ==
    /\ TFF_At("approach2")
    /\ \E outcome \in {"no_panel", "no_button", "clicked", "raises"} :
         /\ obs' = [op |-> "approach2", outcome |-> outcome, raised |-> outcome = "raises",
                    guarded |-> TRUE]
         /\ screenshots' = TFF_Screenshot(screenshots, "03-dashboard-direct.png",
                                          outcome = "clicked")
         /\ failed' = (failed \/ outcome # "clicked")
    /\ pc' = "approach3"
    /\ UNCHANGED <<pw, browser, i, report, ret, found, loc>>
    /\ TFF_Frame

\* Approach 3: wait_for_function(timeout=5000), then sleep(2) and screenshot
\* 04, in one try/except.  final_found = [] opens step 6; found_elements is
\* not read again.
TFF_Approach3 ==
    /\ TFF_At("approach3")
    /\ \E te \in EventTimes, shotOk \in BOOLEAN :
         LET w == WaitForFunction(5000, te)
         IN  /\ (w.raised => shotOk)
             /\ obs' = w @@ [guarded |-> TRUE, then |-> IF w.raised THEN <<>>
                                                        ELSE <<Sleep(2, te)>>]
             /\ screenshots' = TFF_Screenshot(screenshots, "04-container-found.png",
                                              ~w.raised /\ shotOk)
             /\ failed' = (failed \/ w.raised \/ ~shotOk)
    /\ pc' = "final_check"
    /\ i' = 1
    /\ loc' = [final_found |-> <<>>]
    /\ UNCHANGED <<pw, browser, report, ret, found>>
    /\ TFF_Frame

\* Step 6: the same pass again, into final_found.
TFF_FinalCheck ==
    /\ TFF_At("final_check")
    /\ \E te \in EventTimes :
         LET r == TFF_CheckElement(loc.final_found, i, te)
             last == i = Len(TFF_elements_to_check)
         IN  /\ obs' = r.obs
             /\ loc' = [final_found |-> r.list]
             /\ failed' = (failed \/ r.obs.raised)
             /\ i' = IF last THEN 1 ELSE i + 1
             /\ pc' = IF last THEN "final_shot" ELSE "final_check"
    /\ UNCHANGED <<pw, browser, screenshots, report, ret, found>>
    /\ TFF_Frame

\* Step 7: screenshot 05, not guarded.
TFF_FinalShot ==
    /\ TFF_At("final_shot")
    /\ \E shotOk \in BOOLEAN :
         /\ obs' = [op |-> "final_shot", raised |-> ~shotOk, guarded |-> FALSE]
         /\ screenshots' = TFF_Screenshot(screenshots, "05-final-state.png", shotOk)
         /\ failed' = (failed \/ ~shotOk)
         /\ pc' = IF shotOk THEN "data" ELSE "finally_raise"
    /\ UNCHANGED <<pw, browser, i, report, ret, found, loc>>
    /\ TFF_Frame

\* Step 8: three page.evaluate calls in one try/except.
TFF_Data ==
    /\ TFF_At("data")
    /\ \E ok \in BOOLEAN :
         /\ obs' = [op |-> "data", raised |-> ~ok, guarded |-> TRUE]
         /\ failed' = (failed \/ ~ok)
    /\ pc' = "report"
    /\ UNCHANGED <<pw, browser, i, screenshots, report, ret, found, loc>>
    /\ TFF_Frame

\* The report dictionary; the function returns report["success"].
TFF_ReportOf(final_found) ==
    [written |-> TRUE,
     elements_found |-> Len(final_found),
     elements_total |-> Len(TFF_elements_to_check),
     found_list |-> final_found,
     success |-> Len(final_found) >= 3,
     returns |-> Len(final_found) >= 3]

TFF_Report ==
    /\ TFF_At("report")
    /\ report' = TFF_ReportOf(loc.final_found)
    /\ obs' = [op |-> "report"]
    /\ pc' = "finally"
    /\ UNCHANGED <<pw, browser, i, screenshots, failed, ret, found, loc>>
    /\ TFF_Frame

\* exit(0 if success else 1); an exception leaving asyncio.run ends the
\* interpreter with status 1.
TFF_ExitStatus(how, success) == IF how = "finally_raise" THEN 1
                                ELSE IF success THEN 0 ELSE 1

\* finally: await browser.close(), then the return or the exception goes on.
TFF_Close ==
    /\ script = TFF
    /\ pc \in {"finally", "finally_return", "finally_raise"}
    /\ browser' = "closed"
    /\ pw' = "stopped"
    /\ obs' = [op |-> "browser.close"]
    /\ ret' = TFF_ExitStatus(pc, Get(report, "returns", FALSE))
    /\ pc' = CASE pc = "finally" -> "done"
               [] pc = "finally_return" -> "returned"
               [] pc = "finally_raise" -> "raised"
    /\ UNCHANGED <<i, screenshots, failed, report, found, loc>>
    /\ TFF_Frame

-----------------------------------------------------------------------------
(* comprehensive-test.py                                                   *)

CT == "comprehensive-test"

CT_At(p) == script = CT /\ pc = p

\* Variables the script has no use for.
CT_Frame == UNCHANGED <<script, launches, env, client, history, ret, loc>>

\* A text of n visible characters with one blank before and after.
CT_Text(n) == <<" ">> \o [k \in 1..n |-> "x"] \o <<" ">>

\* Element texts on either side of the "more than 10 characters" test.
CT_Texts == {CT_Text(10), CT_Text(11)}

\* text[:n]
Prefix(text, n) == SubSeq(text, 1, Min(n, Len(text)))

\* capture: page.screenshot, the file size in KB, one record appended.  Both
\* calls can raise, and the exception leaves capture.
CT_Capture(shots, name, description, shotOk, size) ==
    LET ok == shotOk /\ size # StatRaises
    IN  [raised |-> ~ok,
         screenshots |-> IF ok
                         THEN Append(shots, [name |-> name, description |-> description,
                                             path |-> name, size_kb |-> size])
                         ELSE shots]

\* check_element_exists: wait_for_selector(timeout=2000) and inner_text in a
\* try block; one finding is appended on either way out.  text = None stands
\* for a raising inner_text.

\* A variant whose except branch records nothing.
CT_CheckElementExists_Silent(findings, selector, name, te, text) ==
    LET w == WaitForSelector(selector, 2000, te)
        exists == ~w.raised /\ text # <<None>>
        has_content == exists /\ Len(Strip(text)) > 10
    IN  [returns |-> exists,
         wait |-> w,
         findings |-> IF exists
                      THEN Append(findings,
                                  [element |-> name, exists |-> TRUE,
                                   has_content |-> has_content,
                                   preview |-> IF has_content THEN Prefix(text, 100)
                                               ELSE <<"(empty)">>])
                      ELSE findings]

CT_CheckElementExists(findings, selector, name, te, text) ==
    LET w == WaitForSelector(selector, 2000, te)
        exists == ~w.raised /\ text # <<None>>
        has_content == exists /\ Len(Strip(text)) > 10
    IN  [returns |-> exists,
         wait |-> w,
         findings |-> Append(findings,
                        IF exists
                        THEN [element |-> name, exists |-> TRUE,
                              has_content |-> has_content,
                              preview |-> IF has_content THEN Prefix(text, 100)
                                          ELSE <<"(empty)">>]
                        ELSE [element |-> name, exists |-> FALSE,
                              has_content |-> FALSE])]

\* What the page can do to one check_element_exists call.
CT_CheckInputs == [te : EventTimes, text : CT_Texts \cup {<<None>>}]

\* async with async_playwright(), launch, new_context, new_page: before the try.
\* An exception leaves the async with block: the driver stops and closes the
\* browser if it was launched.
CT_Launch ==
    /\ CT_At("start")
    /\ \E outcome \in {"ok", "launch_raises", "context_raises", "page_raises"} :
         /\ browser' = IF outcome = "launch_raises" THEN "none"
                       ELSE IF outcome = "ok" THEN "open" ELSE "closed"
         /\ launches' = IF outcome = "launch_raises" THEN launches ELSE launches + 1
         /\ pw' = IF outcome = "ok" THEN "running" ELSE "stopped"
         /\ pc' = IF outcome = "ok" THEN "goto" ELSE "raised"
         /\ obs' = [op |-> "launch", outcome |-> outcome]
    /\ UNCHANGED <<i, j, results, screenshots, failed, report, found, faults>>
    /\ UNCHANGED <<script, env, client, history, ret, loc>>

\* 1. page.goto(BASE_URL, wait_until='networkidle')
CT_Goto ==
    /\ CT_At("goto")
    /\ \E ok \in BOOLEAN, te \in EventTimes :
         /\ obs' = [op |-> "goto", wait |-> "event", url |-> LOCAL_URL,
                    eventAt |-> te, elapsed |-> te, raised |-> ~ok, guarded |-> FALSE]
         /\ failed' = (failed \/ ~ok)
         /\ pc' = IF ok THEN "capture01" ELSE "finally_raise"
    /\ UNCHANGED <<pw, browser, i, j, results, screenshots, report, found, faults>>
    /\ CT_Frame

\* The captures made directly in the outer try block.
CT_CAPTURES == [capture01 |-> [name |-> "01-initial-load", description |-> "Initial CUI load",
                               next |-> "tabs"],
                capture02 |-> [name |-> "02-office-opened",
                               description |-> "Office/Virtual Office opened",
                               next |-> "buttons"],
                capture09 |-> [name |-> "09-final-state", description |-> "Final state",
                               next |-> "report"]]

CT_DirectCapture ==
    /\ script = CT
    /\ pc \in DOMAIN CT_CAPTURES
    /\ \E shotOk \in BOOLEAN, size \in SizesKb \cup {StatRaises} :
         LET c == CT_CAPTURES[pc]
             r == CT_Capture(screenshots, c.name, c.description, shotOk, size)
         IN  /\ (~shotOk => size \in SizesKb)
             /\ Charge(IF r.raised THEN 1 ELSE 0)
             /\ obs' = [op |-> "capture", name |-> c.name, raised |-> r.raised,
                        guarded |-> FALSE]
             /\ screenshots' = r.screenshots
             /\ failed' = (failed \/ r.raised)
             /\ pc' = IF r.raised THEN "finally_raise" ELSE c.next
    /\ i' = 1
    /\ j' = 1
    /\ UNCHANGED <<pw, browser, results, report, found>>
    /\ CT_Frame

\* 2. The Virtual Office tab: locator(...).all(), then inner_text of each tab
\* and a click on the first Virtual Office tab, in one try/except.
CT_Tabs ==
    /\ CT_At("tabs")
    /\ \E outcome \in {"clicked", "absent", "raises"} :
         /\ obs' = [op |-> "tabs", outcome |-> outcome, raised |-> outcome = "raises",
                    guarded |-> TRUE]
         /\ found' = (outcome = "clicked")
         /\ failed' = (failed \/ outcome # "clicked")
         /\ pc' = IF outcome = "clicked" THEN "capture02" ELSE "office_lite"
    /\ UNCHANGED <<pw, browser, i, j, results, screenshots, report, faults>>
    /\ CT_Frame

\* The fallback: the first Office tab is clicked, then the Dashboard button
\* in a try/except of its own.
CT_OfficeLite ==
    /\ CT_At("office_lite")
    /\ \E outcome \in {"absent", "raises", "dashboard_clicked", "dashboard_missing"} :
         /\ obs' = [op |-> "office_lite", outcome |-> outcome,
                    raised |-> outcome \in {"raises", "dashboard_missing"},
                    guarded |-> TRUE]
         /\ failed' = (failed \/ outcome # "dashboard_clicked")
    /\ pc' = "capture02"
    /\ UNCHANGED <<pw, browser, i, j, results, screenshots, report, found, faults>>
    /\ CT_Frame

\* 3. The view buttons, the screenshot of each, and the element checked
\* after three of them.
CT_buttons == <<
    [text |-> "Dashboard", shot |-> "03-dashboard-view", emoji |-> "control-knobs"],
    [text |-> "Office", shot |-> "04-office-view", emoji |-> "office-building"],
    [text |-> "Tasks", shot |-> "05-tasks-view", emoji |-> "clipboard",
     check |-> [selector |-> <<".task-list", ",", " ", "[data-tasks]">>,
                name |-> "Task List"]],
    [text |-> "Reviews", shot |-> "06-reviews-view", emoji |-> "memo"],
    [text |-> "Knowledge", shot |-> "07-knowledge-view", emoji |-> "books",
     check |-> [selector |-> <<".knowledge-base", ",", " ", "[data-knowledge]">>,
                name |-> "Knowledge Base"]],
    [text |-> "Agents", shot |-> "08-agents-view", emoji |-> "robot",
     check |-> [selector |-> <<".agent-card", ",", " ", "[data-agent-card]">>,
                name |-> "Agent Cards"]] >>

\* [s for s in selectors if s]: the plain selector and the button's own
\* emoji selector.
CT_Selectors(b) == << <<"button:has-text('", b.text, "')">>,
                      <<"button:has-text('", b.emoji, "'):has-text('", b.text, "')">> >>

\* One button: the selectors until one click works, then the capture and the
\* check; an exception of the capture ends this button only.
CT_Button ==
    /\ CT_At("buttons")
    /\ \E works \in SUBSET (1..2), shotOk \in BOOLEAN, in \in CT_CheckInputs :
         LET b == CT_buttons[i]
             tried == TrySelectors(CT_Selectors(b), works)
             r == CT_Capture(screenshots, b.shot, b.text \o " view", shotOk, 7)
             checked == ~r.raised /\ "check" \in DOMAIN b
             c == CT_CheckElementExists(results, b.check.selector, b.check.name,
                                        in.te, in.text)
         IN  /\ (~checked => in = [te |-> 0, text |-> <<None>>])
             /\ Charge((IF r.raised THEN 1 ELSE 0)
                       + (IF checked /\ ~c.returns THEN 1 ELSE 0))
             /\ obs' = [op |-> "click", list |-> CT_Selectors(b), tried |-> tried,
                        clicked |-> AnyOk(tried), raised |-> r.raised, guarded |-> TRUE,
                        checked |-> checked, returns |-> checked /\ c.returns]
             /\ screenshots' = r.screenshots
             /\ results' = IF checked THEN c.findings ELSE results
             /\ failed' = (failed \/ ~AnyOk(tried) \/ r.raised
                                  \/ (checked /\ ~c.returns))
    /\ i' = IF i = Len(CT_buttons) THEN 1 ELSE i + 1
    /\ pc' = IF i = Len(CT_buttons) THEN "panels" ELSE "buttons"
    /\ UNCHANGED <<pw, browser, j, report, found>>
    /\ CT_Frame

\* 4. The three Virtual Office panels.
CT_panels == <<
    [selector |-> <<".activity-stream", ",", " ", "[data-panel='activity']">>,
     name |-> "Activity Stream"],
    [selector |-> <<".agent-grid", ",", " ", "[data-panel='agents']">>,
     name |-> "Agent Grid"],
    [selector |-> <<".action-items", ",", " ", "[data-panel='action-items']">>,
     name |-> "Action Items"] >>

CT_Panel ==
    /\ CT_At("panels")
    /\ \E in \in CT_CheckInputs :
         LET c == CT_CheckElementExists(results, CT_panels[j].selector,
                                        CT_panels[j].name, in.te, in.text)
         IN  /\ Charge(IF c.returns THEN 0 ELSE 1)
             /\ obs' = [op |-> "check_element_exists", before |-> Len(results),
                        returns |-> c.returns, waited |-> c.wait, raised |-> ~c.returns,
                        guarded |-> TRUE]
             /\ results' = c.findings
             /\ failed' = (failed \/ ~c.returns)
    /\ j' = IF j = Len(CT_panels) THEN 1 ELSE j + 1
    /\ pc' = IF j = Len(CT_panels) THEN "capture09" ELSE "panels"
    /\ UNCHANGED <<pw, browser, i, screenshots, report, found>>
    /\ CT_Frame

\* sum(1 for f in findings if test(f)), given test(f) for each finding in turn
CT_CountWhere(tests) ==
    Cardinality({k \in 1..Len(tests) : tests[k]})

CT_Exists(f) == Get(f, "exists", FALSE)
CT_HasContent(f) == Get(f, "has_content", FALSE)
CT_Empty(f) == Get(f, "exists", FALSE) /\ ~Get(f, "has_content", FALSE)

\* generate_report
CT_Report(shots, findings) ==
    [written |-> TRUE,
     screenshots |-> shots,
     findings |-> findings,
     summary |-> [total_screenshots |-> Len(shots),
                  elements_found |-> CT_CountWhere([k \in 1..Len(findings) |-> CT_Exists(findings[k])]),
                  elements_with_content |-> CT_CountWhere([k \in 1..Len(findings) |-> CT_HasContent(findings[k])]),
                  elements_empty |-> CT_CountWhere([k \in 1..Len(findings) |-> CT_Empty(findings[k])])]]

CT_GenerateReport ==
    /\ CT_At("report")
    /\ report' = CT_Report(screenshots, results)
    /\ obs' = [op |-> "generate_report"]
    /\ pc' = "finally"
    /\ UNCHANGED <<pw, browser, i, j, results, screenshots, failed, found, faults>>
    /\ CT_Frame

\* finally: await browser.close()
CT_Close ==
    /\ script = CT
    /\ pc \in {"finally", "finally_raise"}
    /\ browser' = "closed"
    /\ pw' = "stopped"
    /\ obs' = [op |-> "browser.close"]
    /\ pc' = IF pc = "finally" THEN "done" ELSE "raised"
    /\ UNCHANGED <<i, j, results, screenshots, failed, report, found, faults>>
    /\ CT_Frame

-----------------------------------------------------------------------------
(* test-console-logs.py and test-react-errors.py                           *)
(* The two scripts register console and pageerror callbacks that append to *)
(* lists the main coroutine prints later.  Everything runs on one asyncio  *)
(* event loop: a callback runs only while the main coroutine is suspended  *)
(* in an await.  Each statement is a record; an awaited one is issued and  *)
(* then completed in two steps, with the coroutine suspended in between.   *)

TCL == "test-console-logs"
TRE == "test-react-errors"

LogScripts == {TCL, TRE}

Log_URL == "http://localhost:4005?project=team"

\* A statement with a "list" is a synchronous pass over that list (a for loop
\* or a comprehension); its "await" says whether the loop body awaits a call.

\* test_console with a first pass whose body awaits a page call for every
\* log line (for log in console_logs: await page.evaluate(...)).
TCL_PROGRAM_AwaitInPass == <<
    [op |-> "goto", await |-> TRUE, raises |-> TRUE],
    [op |-> "sleep", await |-> TRUE, raises |-> FALSE, seconds |-> 5],
    [op |-> "evaluate", await |-> TRUE, raises |-> TRUE],
    [op |-> "evaluate", await |-> TRUE, raises |-> TRUE],
    [op |-> "print_each", await |-> TRUE, list |-> "console_logs"],
    [op |-> "print_each", await |-> FALSE, list |-> "page_errors"] >>

\* test_console, from the first statement after page.on(...) to the end of
\* the try block.
TCL_PROGRAM == <<
    [op |-> "goto", await |-> TRUE, raises |-> TRUE],
    [op |-> "sleep", await |-> TRUE, raises |-> FALSE, seconds |-> 5],
    [op |-> "evaluate", await |-> TRUE, raises |-> TRUE],
    [op |-> "evaluate", await |-> TRUE, raises |-> TRUE],
    [op |-> "print_each", await |-> FALSE, list |-> "console_logs"],
    [op |-> "print_each", await |-> FALSE, list |-> "page_errors"] >>

\* test_react_errors, likewise; add_init_script comes before the try block
\* (in_try FALSE), so its exception skips the finally clause.  The three
\* comprehensions and json.dump read console_logs.
TRE_PROGRAM == <<
    [op |-> "add_init_script", await |-> TRUE, raises |-> TRUE, in_try |-> FALSE],
    [op |-> "goto", await |-> TRUE, raises |-> TRUE],
    [op |-> "sleep", await |-> TRUE, raises |-> FALSE, seconds |-> 5],
    [op |-> "evaluate", await |-> TRUE, raises |-> TRUE],
    [op |-> "select", await |-> FALSE, list |-> "console_logs", types |-> {"error"}],
    [op |-> "select", await |-> FALSE, list |-> "console_logs", types |-> {"warning"}],
    [op |-> "select", await |-> FALSE, list |-> "console_logs", types |-> {"log", "info"}],
    [op |-> "print_each", await |-> FALSE, list |-> "page_errors"],
    [op |-> "dump", await |-> FALSE, list |-> "console_logs"],
    [op |-> "dump", await |-> FALSE, list |-> "page_errors"] >>

Log_Program == IF script = TCL THEN TCL_PROGRAM ELSE TRE_PROGRAM

Log_Stmt == Log_Program[i]

\* Console message types a page can emit.
Log_Types == {"error", "log"}

\* The console callback's list entry: a formatted string in
\* test-console-logs, a dictionary in test-react-errors.
Log_ConsoleEntry(scr, type, text) ==
    IF scr = TCL THEN [type |-> type, line |-> <<"[", type, "] ", text>>]
    ELSE [type |-> type, text |-> text, location |-> "location"]

\* The main coroutine is suspended in an await: the only points at which
\* the event loop can run a callback.
Log_Suspended(l) == l.suspended

\* Callbacks delivered on a thread of their own: at any moment.
Log_CallbackAnytime(l) == TRUE

\* page.on(event, callback): the event loop runs the callback when the event
\* arrives and no coroutine is running, that is, while main is suspended.
Log_CallbackMayRun(l) == Log_Suspended(l)

\* The main coroutine is inside one of its passes over a list.
Log_Reading ==
    /\ script \in LogScripts
    /\ pc = "run"
    /\ "list" \in DOMAIN Log_Stmt

Log_Frame == UNCHANGED <<script, launches, env, client, results, screenshots, history,
                         report, ret, found, faults>>

\* launch, new_context, new_page, then the two page.on(...) registrations.
\* An exception leaves the async with block: the driver stops and closes the
\* browser if it was launched.
Log_Launch ==
    /\ script \in LogScripts
    /\ pc = "start"
    /\ \E outcome \in {"ok", "launch_raises", "context_raises", "page_raises"} :
         /\ browser' = IF outcome = "launch_raises" THEN "none"
                       ELSE IF outcome = "ok" THEN "open" ELSE "closed"
         /\ launches' = IF outcome = "launch_raises" THEN launches ELSE launches + 1
         /\ pw' = IF outcome = "ok" THEN "running" ELSE "stopped"
         /\ pc' = IF outcome = "ok" THEN "run" ELSE "raised"
         /\ obs' = [op |-> "launch", outcome |-> outcome]
    /\ loc' = [console_logs |-> <<>>, page_errors |-> <<>>, suspended |-> FALSE,
               inflight |-> 0, out |-> <<>>]
    /\ UNCHANGED <<i, j, failed>>
    /\ UNCHANGED <<script, env, client, results, screenshots, history, report, ret, found, faults>>

\* await <operation>: the operation is sent to the browser and the
\* coroutine suspends.  The finally block's browser.close() is one too.
Log_Issue ==
    /\ script \in LogScripts
    /\ \/ pc = "run" /\ Log_Stmt.await /\ "list" \notin DOMAIN Log_Stmt
       \/ pc \in {"finally", "finally_raise"}
    /\ ~Log_Suspended(loc)
    /\ loc' = [loc EXCEPT !.suspended = TRUE, !.inflight = @ + 1]
    /\ obs' = [op |-> "issue", stmt |-> IF pc = "run" THEN Log_Stmt.op ELSE "browser.close"]
    /\ UNCHANGED <<pc, pw, browser, i, j, failed>>
    /\ Log_Frame

\* The awaited operation completes (or raises) and the coroutine resumes.  An
\* exception inside the try block goes to the finally clause; one before it
\* leaves the function through async with: browser.close() is never called,
\* the driver stops and closes the browser.  An await in the body of a pass
\* resumes the pass where it was.
Log_Complete ==
    /\ script \in LogScripts
    /\ pc = "run"
    /\ Log_Suspended(loc)
    /\ \E ok \in BOOLEAN :
         LET in_try == Get(Log_Stmt, "in_try", TRUE)
             pass == "list" \in DOMAIN Log_Stmt
         IN  /\ (~Get(Log_Stmt, "raises", TRUE) => ok)
             /\ obs' = [op |-> "complete", stmt |-> Log_Stmt.op, raised |-> ~ok]
             /\ failed' = (failed \/ ~ok)
             /\ pc' = IF ~ok THEN (IF in_try THEN "finally_raise" ELSE "raised")
                      ELSE IF pass THEN "run"
                      ELSE IF i = Len(Log_Program) THEN "finally" ELSE "run"
             /\ i' = IF ok /\ ~pass /\ i < Len(Log_Program) THEN i + 1 ELSE i
             /\ j' = IF pass THEN j ELSE 1
             /\ pw' = IF ~ok /\ ~in_try THEN "stopped" ELSE pw
             /\ browser' = IF ~ok /\ ~in_try THEN "closed" ELSE browser
    /\ loc' = [loc EXCEPT !.suspended = FALSE, !.inflight = @ - 1]
    /\ Log_Frame

\* finally: browser.close() has completed.
Log_Close ==
    /\ script \in LogScripts
    /\ pc \in {"finally", "finally_raise"}
    /\ Log_Suspended(loc)
    /\ loc' = [loc EXCEPT !.suspended = FALSE, !.inflight = @ - 1]
    /\ browser' = "closed"
    /\ pw' = "stopped"
    /\ obs' = [op |-> "browser.close"]
    /\ pc' = IF pc = "finally" THEN "done" ELSE "raised"
    /\ UNCHANGED <<i, j, failed>>
    /\ Log_Frame

\* page.on('console', lambda msg: console_logs.append(...))
Log_OnConsole ==
    /\ script \in LogScripts
    /\ pc \in {"run", "finally", "finally_raise"}
    /\ Log_CallbackMayRun(loc)
    /\ Len(loc.console_logs) + Len(loc.page_errors) < MaxLogs
    /\ \E type \in Log_Types :
         /\ loc' = [loc EXCEPT !.console_logs =
                                   Append(@, Log_ConsoleEntry(script, type, "text"))]
         /\ obs' = [op |-> "on_console", type |-> type]
    /\ UNCHANGED <<pc, pw, browser, i, j, failed>>
    /\ Log_Frame

\* page.on('pageerror', lambda err: errors.append(...)): the entry is
\* f"[PAGE ERROR] {err}" in test-console-logs, str(err) in test-react-errors.
Log_OnPageError ==
    /\ script \in LogScripts
    /\ pc \in {"run", "finally", "finally_raise"}
    /\ Log_CallbackMayRun(loc)
    /\ Len(loc.console_logs) + Len(loc.page_errors) < MaxLogs
    /\ loc' = [loc EXCEPT !.page_errors = Append(@, IF script = TCL THEN <<"[PAGE ERROR] ", "err">>
                                                   ELSE <<"err">>)]
    /\ obs' = [op |-> "on_pageerror"]
    /\ UNCHANGED <<pc, pw, browser, i, j, failed>>
    /\ Log_Frame

\* One iteration of a synchronous pass ("for log in console_logs: print",
\* or a comprehension keeping the entries of some types): the entry at the
\* cursor is read (json.dump walks the list the same way), and the pass ends
\* when the cursor is past the list.  A loop body that awaits suspends the
\* coroutine after the entry is read.
Log_Read ==
    /\ Log_Reading
    /\ ~Log_Suspended(loc)
    /\ LET list == loc[Log_Stmt.list]
           over == j > Len(list)
           keep == Log_Stmt.op # "select" \/ list[j].type \in Log_Stmt.types
           read == IF over \/ ~keep THEN loc
                   ELSE [loc EXCEPT !.out = Append(@, [stmt |-> i, entry |-> list[j]])]
       IN  /\ loc' = IF ~over /\ Log_Stmt.await
                     THEN [read EXCEPT !.suspended = TRUE, !.inflight = @ + 1]
                     ELSE read
           /\ obs' = [op |-> "read", list |-> Log_Stmt.list, at |-> j, over |-> over]
           /\ j' = IF over THEN 1 ELSE j + 1
           /\ i' = IF over /\ i < Len(Log_Program) THEN i + 1 ELSE i
           /\ pc' = IF over /\ i = Len(Log_Program) THEN "finally" ELSE "run"
    /\ UNCHANGED <<pw, browser, failed>>
    /\ Log_Frame

-----------------------------------------------------------------------------
(* scripts/extract-tokens-mac.py                                           *)

ET == "extract-tokens"

\* BROWSERS, in dictionary order.
ET_BROWSERS == <<
    [browser |-> "Chrome", extract |-> "chromium"],
    [browser |-> "Brave", extract |-> "chromium"],
    [browser |-> "Arc", extract |-> "chromium"],
    [browser |-> "Edge", extract |-> "chromium"],
    [browser |-> "Firefox", extract |-> "firefox"] >>

\* sessionKey values the cookie stores may hold.
ET_Tokens == {"sk-ant-a", "sk-ant-b", "sk-ant-c"}

\* What one extract_from_... call can return: a list of values, duplicates
\* included, no longer than the rows left in the budget.
ET_Returns(rows) == UNION {[1..n -> ET_Tokens] : n \in 0..rows}

Range(f) == {f[k] : k \in DOMAIN f}

\* The rows held by all_tokens.
ET_Rows(all_tokens) ==
    LET RECURSIVE Sum(_)
        Sum(B) == IF B = {} THEN 0
                  ELSE LET b == CHOOSE x \in B : TRUE
                       IN  Len(all_tokens[b]) + Sum(B \ {b})
    IN  Sum(DOMAIN all_tokens)

\* all_tokens.values(), in insertion order: the order of BROWSERS.
RECURSIVE ET_Values(_, _)
ET_Values(all_tokens, k) ==
    IF k > Len(ET_BROWSERS) THEN <<>>
    ELSE (IF ET_BROWSERS[k].browser \in DOMAIN all_tokens
          THEN <<all_tokens[ET_BROWSERS[k].browser]>> ELSE <<>>)
         \o ET_Values(all_tokens, k + 1)

\* unique_tokens = set(); for tokens in values: unique_tokens.update(tokens)
RECURSIVE ET_Update(_, _)
ET_Update(unique_tokens, values) ==
    IF values = <<>> THEN unique_tokens
    ELSE ET_Update(unique_tokens \cup Range(Head(values)), Tail(values))

\* The orders in which a set may be iterated.
ET_Iterations(set) ==
    {order \in [1..Cardinality(set) -> set] :
        \A a, b \in 1..Cardinality(set) : order[a] = order[b] => a = b}

\* A consolidation into a list: every row of every browser is kept.
ET_Consolidate_KeepAll(all_tokens) ==
    LET RECURSIVE Cat(_)
        Cat(vs) == IF vs = <<>> THEN <<>> ELSE Head(vs) \o Cat(Tail(vs))
    IN  {Cat(ET_Values(all_tokens, 1))}

\* Lines 148 to 150, and every order in which the consolidated tokens may
\* then be walked.
ET_Consolidate(all_tokens) ==
    ET_Iterations(ET_Update({}, ET_Values(all_tokens, 1)))

\* Lines 160 to 167: three named exports from the first three tokens, or one
\* numbered export per token.
ET_Exports(tokens_list) ==
    IF Len(tokens_list) >= 3
    THEN <<[name |-> "CLAUDE_AUTH_TOKEN_RAFAEL", value |-> tokens_list[1]],
           [name |-> "CLAUDE_AUTH_TOKEN_OFFICE", value |-> tokens_list[2]],
           [name |-> "CLAUDE_AUTH_TOKEN_ENGELMANN", value |-> tokens_list[3]]>>
    ELSE [k \in 1..Len(tokens_list) |->
            [name |-> <<"CLAUDE_AUTH_TOKEN_", k>>, value |-> tokens_list[k]]]

ET_Frame == UNCHANGED <<script, launches, env, client, pw, browser, j, results, screenshots,
                        history, report, ret, found, faults>>

\* main has no setup: the loop over BROWSERS starts with an empty all_tokens.
ET_Start ==
    /\ script = ET
    /\ pc = "start"
    /\ pc' = "browsers"
    /\ loc' = [all_tokens |-> [b \in {} |-> <<>>]]
    /\ obs' = [op |-> "main"]
    /\ UNCHANGED <<i, failed>>
    /\ ET_Frame

\* One browser of the loop: the extraction, and all_tokens[browser] = tokens
\* when the list is not empty.  A raising extraction is caught.
ET_Browser ==
    /\ script = ET
    /\ pc = "browsers"
    /\ \E raised \in BOOLEAN :
       \E tokens \in ET_Returns(IF raised THEN 0
                                ELSE MaxTokenRows - ET_Rows(loc.all_tokens)) :
         LET b == ET_BROWSERS[i].browser
         IN  /\ loc' = [all_tokens |->
                          IF tokens # <<>>
                          THEN [x \in DOMAIN loc.all_tokens \cup {b} |->
                                  IF x = b THEN tokens ELSE loc.all_tokens[x]]
                          ELSE loc.all_tokens]
             /\ obs' = [op |-> "extract", browser |-> b, raised |-> raised,
                        tokens |-> tokens]
    /\ i' = IF i = Len(ET_BROWSERS) THEN 1 ELSE i + 1
    /\ pc' = IF i = Len(ET_BROWSERS) THEN "found" ELSE "browsers"
    /\ UNCHANGED failed
    /\ ET_Frame

\* "if not all_tokens: return", else the consolidation and the numbered list.
ET_List ==
    /\ script = ET
    /\ pc = "found"
    /\ IF DOMAIN loc.all_tokens = {}
       THEN /\ pc' = "returned"
            /\ loc' = loc
            /\ obs' = [op |-> "no_tokens"]
       ELSE \E tokens_list \in ET_Consolidate(loc.all_tokens) :
            /\ pc' = "export"
            /\ loc' = [all_tokens |-> loc.all_tokens, tokens_list |-> tokens_list,
                       listed |-> tokens_list, exported |-> <<>>]
            /\ obs' = [op |-> "list", listed |-> tokens_list]
    /\ UNCHANGED <<i, failed>>
    /\ ET_Frame

\* The export lines.
ET_Export ==
    /\ script = ET
    /\ pc = "export"
    /\ loc' = [loc EXCEPT !.exported = ET_Exports(loc.tokens_list)]
    /\ obs' = [op |-> "export"]
    /\ pc' = "done"
    /\ UNCHANGED <<i, failed>>
    /\ ET_Frame

-----------------------------------------------------------------------------
(* The run *)

Scripts == {"visual-tester", "screenshot-service", "virtual-office-test",
            "api-tester", "visual-office", CTW, CWC, TFF, CT, TCL, TRE, ET}

\* The scripts that read the environment (os.getenv at module level).
ReadsEnv == {"visual-tester", "visual-office"}

Init ==
    /\ script \in Scripts
    /\ launches = 0
    /\ pc = "start"
    /\ env \in IF script \in ReadsEnv
               THEN [AI_BRIDGE_API_KEY : EnvValues, ANTHROPIC_API_KEY : EnvValues,
                     CUI_URL : IF script = "visual-tester" THEN CuiUrls ELSE {None}]
               ELSE {[AI_BRIDGE_API_KEY |-> None, ANTHROPIC_API_KEY |-> None,
                      CUI_URL |-> None]}
    /\ client = IF script = "visual-tester" THEN VT_NewClient(env) ELSE None
    /\ pw = "none"
    /\ browser = "none"
    /\ i = 1
    /\ j = 1
    /\ results = <<>>
    /\ screenshots = <<>>
    /\ history = <<>>
    /\ obs = NoObs
    /\ failed = FALSE
    /\ report = NoReport
    /\ ret = None
    /\ found = FALSE
    /\ faults = 0
    /\ loc = NoLocals

Next ==
    \/ VT_Launch
    \/ VT_Navigate
    \/ VT_Wait
    \/ VT_Click
    \/ VT_WaitForStable
    \/ VT_Screenshot
    \/ VT_Analyze
    \/ VT_PrintSummary
    \/ VT_Close
    \/ Svc_Start
    \/ Svc_Goto
    \/ Svc_Strategy1
    \/ Svc_Strategy2
    \/ Svc_Strategy3
    \/ Svc_NavigateReturn
    \/ Svc_CapturePanel
    \/ Svc_Business
    \/ Svc_Agent
    \/ Svc_View
    \/ Svc_Final
    \/ Svc_GenerateReport
    \/ Svc_Stop
    \/ VOT_Launch
    \/ VOT_Navigate
    \/ VOT_Shot
    \/ VOT_Tabs
    \/ VOT_Verify
    \/ VOT_Count
    \/ VOT_ClickGrid
    \/ VOT_Approval
    \/ VOT_Views
    \/ VOT_Modal
    \/ VOT_Close
    \/ VOT_GenerateSummary
    \/ API_Request
    \/ API_GenerateSummary
    \/ API_Exit
    \/ TVO_Launch
    \/ TVO_Navigate
    \/ TVO_Tabs
    \/ TVO_NotClicked
    \/ TVO_Panel
    \/ TVO_Final
    \/ TVO_Close
    \/ CTW_Launch
    \/ CTW_Goto
    \/ CTW_Dialog
    \/ CTW_Team
    \/ CTW_AgentGrid
    \/ CTW_Grid
    \/ CTW_Button
    \/ CTW_Close
    \/ CWC_Launch
    \/ CWC_Goto
    \/ CWC_Dialog
    \/ CWC_Tabs
    \/ CWC_AgentGrid
    \/ CWC_Grid
    \/ CWC_Button
    \/ CWC_Close
    \/ TFF_Launch
    \/ TFF_Goto
    \/ TFF_Initial
    \/ TFF_Tabs
    \/ TFF_Approach1
    \/ TFF_Check
    \/ TFF_Approach2
    \/ TFF_Approach3
    \/ TFF_FinalCheck
    \/ TFF_FinalShot
    \/ TFF_Data
    \/ TFF_Report
    \/ TFF_Close
    \/ CT_Launch
    \/ CT_Goto
    \/ CT_DirectCapture
    \/ CT_Tabs
    \/ CT_OfficeLite
    \/ CT_Button
    \/ CT_Panel
    \/ CT_GenerateReport
    \/ CT_Close
    \/ Log_Launch
    \/ Log_Issue
    \/ Log_Complete
    \/ Log_Close
    \/ Log_OnConsole
    \/ Log_OnPageError
    \/ Log_Read
    \/ ET_Start
    \/ ET_Browser
    \/ ET_List
    \/ ET_Export

Spec == Init /\ [][Next]_vars

\* A run of autonomous-visual-tester.py alone.  Every awaited call of a step
\* returns or raises within its timeout and the event loop then resumes the
\* coroutine, so a step that can be taken is eventually taken.
VT_Init == Init /\ script = "visual-tester"

VT_LiveSpec == VT_Init /\ [][VT_Next]_vars /\ WF_vars(VT_Next)

-----------------------------------------------------------------------------
(* Properties *)

\* The run is over.
Final == {"done", "returned", "raised"}

\* C1, as stated: a failed attempt (a click, a selector wait or an element
\* lookup that raises or finds nothing) never ends the run early: the run
\* is never on a return or raise path right after such an attempt.
C1_FailedAttemptNeverEndsRun ==
    LET attemptFailed ==
            \/ "tried" \in DOMAIN obs /\ ~obs.clicked
            \/ obs.op \in {"wait_for_selector", "wait_for_function"} /\ obs.raised
            \/ obs.op = "agent_grid" /\ obs.outcome = "absent"
            \/ obs.op = "find_tab" /\ obs.at = 0 /\ ~obs.raised
    IN  attemptFailed => pc \notin {"returned", "raised", "finally_return", "finally_raise"}

\* C1, amended: a failed attempt is survived exactly where the code wraps it.
\* In the visual tester the first raising step ends its scenario (the result
\* is False and the next scenario starts) while the run always goes on to
\* the summary once the page exists.  click-team-workspace returns early
\* when both Team clicks fail or the Agent Grid button is absent, and goes
\* on after a failing welcome dialog.  test-final-fix returns early, before
\* its final screenshot and report, when no Virtual Office tab is found, and
\* goes on after a failure in one of its guarded approaches and waits.
C1_EarlyEndOnlyWhereCoded ==
    /\ script = "visual-tester" =>
         /\ pc # "returned"
         /\ (pc = "raised" => obs.op = "launch")
         /\ (pc = "done" => Len(results) = Len(VT_Scenarios))
         /\ (pc \in {"steps", "summary"} /\ "raised" \in DOMAIN obs /\ obs.raised)
                => (j = 1 /\ results # <<>> /\ ~results[Len(results)].success)
    /\ script = CTW =>
         /\ (obs.op = "dialog" => pc = "team")
         /\ (obs.op = "team" =>
                /\ (pc = "returned" <=> (~obs.clicked /\ ~obs.raised))
                /\ (pc = "agent_grid" <=> obs.clicked))
         /\ (obs.op = "agent_grid" =>
                (pc = "returned" <=> (obs.outcome = "absent" /\ ~obs.raised)))
         /\ (pc = "returned" =>
                /\ obs.op \in {"team", "agent_grid"}
                /\ ~Contains(screenshots, "09-chat-view.png"))
    /\ script = TFF =>
         /\ (obs.op = "find_tab" =>
                (pc = "finally_return" <=> (obs.at = 0 /\ ~obs.raised)))
         /\ (obs.op \in {"approach1", "approach2", "wait_for_function",
                         "wait_for_selector", "data"}
                => pc \notin {"finally_return", "finally_raise"})
         /\ (pc = "returned" =>
                /\ ~Contains(screenshots, "05-final-state.png")
                /\ ~report.written)

\* click-team-workspace has returned early because both Team clicks failed.
C1_Witness ==
    /\ script = CTW
    /\ pc = "returned"
    /\ obs.op = "team"
    /\ ~obs.clicked
    /\ Len(obs.tried) = 2

\* C2: in every run that launched a browser, the browser has been closed when
\* the run is over, whether it completed, returned early or raised.
C2_BrowserClosedWhenRunEnds ==
    (pc \in Final /\ launches > 0) => browser = "closed"

\* capture-with-click has raised out of page.goto: browser.close() was never
\* called, and the browser launched is closed.
C2_Witness ==
    /\ script = CWC
    /\ pc = "raised"
    /\ launches = 1
    /\ obs.op = "goto"
    /\ obs.raised
    /\ browser = "closed"

\* C3: the selectors of a list are attempted in list order, each one only
\* after all earlier ones failed, none after the first success and none
\* twice.
C3_SelectorsInOrderUntilFirstSuccess ==
    "tried" \in DOMAIN obs =>
        /\ Len(obs.tried) <= Len(obs.list)
        /\ \A k \in 1..Len(obs.tried) :
              /\ obs.tried[k].pos = k
              /\ obs.tried[k].sel = obs.list[k]
              /\ (k < Len(obs.tried) => ~obs.tried[k].ok)

\* The second selector of a longer list succeeded after the first failed, and
\* the rest of the list was left alone.
C3_Witness ==
    /\ "tried" \in DOMAIN obs
    /\ Len(obs.tried) = 2
    /\ ~obs.tried[1].ok
    /\ obs.tried[2].ok
    /\ Len(obs.list) > 2

\* C4, as stated: whenever the element of a selector-targeted screenshot
\* cannot be found or captured, a page screenshot is taken instead and the
\* operation yields a file path.
C4_AlwaysFallsBackToPage ==
    ("elementFailed" \in DOMAIN obs /\ obs.elementFailed) =>
        /\ obs.calls = <<"element.screenshot", "page.screenshot">>
        /\ obs.path # None

\* C4, amended: VisualTester's screenshot step and the service's
\* capture_screenshot attempt a page screenshot when the element fails; the
\* path is yielded and recorded only when that attempt works (and, in the
\* service, the file size can be read), else the step raises (VisualTester)
\* or None is returned (service) and nothing is recorded.  capture_screenshot
\* of test-visual-office has no fallback: it returns None, and no analysis
\* follows.
C4_FallbackWhereCoded ==
    /\ (script = "visual-tester" /\ obs.op = "screenshot" /\ obs.elementFailed) =>
         /\ obs.calls = <<"element.screenshot", "page.screenshot">>
         /\ IF obs.raised
            THEN obs.path = None /\ Len(screenshots) = obs.before
            ELSE /\ obs.path # None
                 /\ Len(screenshots) = obs.before + 1
                 /\ screenshots[Len(screenshots)] = obs.path
    /\ (script = "screenshot-service" /\ obs.op = "screenshot" /\ obs.elementFailed) =>
         /\ obs.calls = <<"element.screenshot", "page.screenshot">>
         /\ ~obs.raised
         /\ IF obs.path = None
            THEN Len(screenshots) = obs.before
            ELSE /\ obs.written
                 /\ Len(screenshots) = obs.before + 1
                 /\ screenshots[Len(screenshots)].name = obs.name
    /\ (script = "visual-office" /\ obs.op = "screenshot+analyze" /\ obs.elementFailed) =>
         /\ obs.calls = <<"element.screenshot">>
         /\ obs.path = None
         /\ ~obs.raised
         /\ ~obs.called

\* A screenshot step of the visual tester whose element failed and whose page
\* screenshot was recorded.
C4_Witness ==
    /\ script = "visual-tester"
    /\ obs.op = "screenshot"
    /\ obs.elementFailed
    /\ obs.path # None
    /\ Len(screenshots) = obs.before + 1

\* The key each script reads was set, and not empty, when the script started.
KeyInEnv ==
    IF script = "visual-tester"
    THEN Truthy(env.ANTHROPIC_API_KEY) \/ Truthy(env.AI_BRIDGE_API_KEY)
    ELSE Truthy(env.AI_BRIDGE_API_KEY)

\* C5: the vision API is called only when an API key was in the environment
\* at the start; without a key an analyze step is skipped, yields no result,
\* raises nothing and the scenario or panel loop goes on to its next step.
C5_VisionOnlyWithKey ==
    /\ (script = "visual-tester" /\ obs.op = "analyze") =>
         /\ (obs.called => KeyInEnv)
         /\ (~KeyInEnv =>
               /\ ~obs.called
               /\ obs.result = NoAnalysis
               /\ ~obs.raised
               /\ Len(history) = obs.before
               /\ IF obs.step < Len(VT_Scenarios[obs.scenario].steps)
                  THEN pc = "steps" /\ i = obs.scenario /\ j = obs.step + 1
                  ELSE /\ i = obs.scenario + 1
                       /\ j = 1
                       /\ results[Len(results)].success)
    /\ (script = "visual-office" /\ obs.op = "screenshot+analyze") =>
         /\ (obs.called => KeyInEnv)
         /\ (~KeyInEnv =>
               /\ ~obs.called
               /\ obs.result = NoAnalysis
               /\ ~obs.raised
               /\ ("panel" \in DOMAIN obs =>
                      IF obs.panel < Len(TVO_PANELS_TO_TEST)
                      THEN pc = "panels" /\ i = obs.panel + 1
                      ELSE pc = "final"))

\* An analyze step of the visual tester run without any key: skipped, and the
\* scenario is at its next step.
C5_Witness ==
    /\ script = "visual-tester"
    /\ obs.op = "analyze"
    /\ ~KeyInEnv
    /\ obs.skipped = "no-client"
    /\ screenshots # <<>>

\* Scripts that drive a browser.
BrowserScripts == Scripts \ {"api-tester", ET}

\* C6, as stated: every run of every script that completes or returns has
\* launched exactly one browser and no run launches more; at most one
\* operation is in flight; the console and pageerror callbacks never change
\* the collected lists while the main procedure is in one of its passes over
\* them.
C6_EveryRunLaunchesOneBrowser ==
    [][/\ launches' <= 1
       /\ (pc' \in {"done", "returned"} => launches' = 1)
       /\ ((script \in LogScripts /\ pc' # "start") =>
              loc'.inflight = IF loc'.suspended THEN 1 ELSE 0)
       /\ (Log_Reading => /\ loc'.console_logs = loc.console_logs
                          /\ loc'.page_errors = loc.page_errors)]_vars

\* C6, amended: no run launches more than one browser, and a run of a script
\* that drives a browser has launched exactly one when it completes or
\* returns (test-with-screenshot-api and extract-tokens drive none and launch
\* none); at most one operation is in flight; the console and pageerror
\* callbacks never change the collected lists while the main procedure is in
\* one of its passes over them.
C6_OneBrowserOneOperationStableReads ==
    /\ [](launches <= 1)
    /\ []((script \in BrowserScripts /\ pc \in {"done", "returned"}) => launches = 1)
    /\ []((script \in LogScripts /\ pc # "start") =>
             loc.inflight = IF loc.suspended THEN 1 ELSE 0)
    /\ [][Log_Reading => /\ loc'.console_logs = loc.console_logs
                         /\ loc'.page_errors = loc.page_errors]_vars

\* The main procedure is in the middle of a pass over a list that callbacks
\* have filled.
C6_Witness ==
    /\ script \in LogScripts
    /\ pc = "run"
    /\ ~Log_Stmt.await
    /\ Log_Stmt.list = "console_logs"
    /\ j > 1
    /\ Len(loc.console_logs) >= 2
    /\ launches = 1

\* C7, as stated: every wait lasts a fixed, hardcoded duration, whatever
\* happens in the page.
C7_EveryWaitIsFixed ==
    "wait" \in DOMAIN obs => ("limit" \in DOMAIN obs /\ obs.elapsed = obs.limit)

\* C7, amended: only asyncio.sleep lasts its hardcoded duration.
\* wait_for_selector and wait_for_function end when the element appears or
\* the predicate holds, and last their whole timeout (then raising) only
\* when that does not happen in time; a navigation ends when the network is
\* idle.
C7_OnlySleepsAreFixed ==
    "wait" \in DOMAIN obs =>
        IF obs.wait = "sleep"
        THEN obs.elapsed = obs.limit /\ ~obs.raised
        ELSE IF "limit" \in DOMAIN obs
        THEN /\ obs.elapsed = IF obs.eventAt < obs.limit THEN obs.eventAt ELSE obs.limit
             /\ (obs.raised <=> ~(obs.eventAt < obs.limit))
        ELSE obs.elapsed = obs.eventAt

\* test-final-fix's wait for the container ended before its timeout, when
\* the predicate became true.
C7_Witness ==
    /\ script = TFF
    /\ obs.op = "wait_for_function"
    /\ obs.eventAt > 0
    /\ obs.elapsed = obs.eventAt
    /\ obs.elapsed < obs.limit

\* C8: in every report written, total_tests = passed + failed = the number
\* of result entries (VirtualOfficeTest, APIScreenshotTester) and the
\* screenshot count is the number of screenshot entries (VirtualOfficeTest,
\* the screenshot service, ComprehensiveTester).
C8_ReportCountersAgree ==
    report.written =>
        /\ script \in {"virtual-office-test", "api-tester"} =>
             /\ report.total_tests = Len(results)
             /\ report.passed + report.failed = report.total_tests
        /\ script = "virtual-office-test" => report.screenshots = Len(screenshots)
        /\ script = "screenshot-service" => report.total_screenshots = Len(screenshots)
        /\ script = CT => report.summary.total_screenshots = Len(screenshots)

\* A VirtualOfficeTest report with passed and failed tests.
C8_Witness ==
    /\ script = "virtual-office-test"
    /\ report.written
    /\ report.passed > 0
    /\ report.failed > 0
    /\ report.screenshots > 0

\* C9: test-with-screenshot-api exits with status 0 if and only if each of
\* the six requests succeeded, and with status 1 otherwise.
C9_ExitZeroIffAllSucceeded ==
    (script = "api-tester" /\ pc = "done") =>
        /\ Len(results) = Len(API_panels_to_test)
        /\ ret \in {0, 1}
        /\ (ret = 0 <=> \A k \in 1..Len(results) : results[k].status = "SUCCESS")

\* C10: the tokens found are consolidated into unique values: each token
\* found is listed once, whatever the number of rows holding it, and no
\* token is exported more than once.
C10_TokensListedAndExportedOnce ==
    (script = ET /\ pc \in {"export", "done"}) =>
        LET tokensFound == UNION {Range(loc.all_tokens[b]) : b \in DOMAIN loc.all_tokens}
            Times(seq, t) == Cardinality({k \in 1..Len(seq) : seq[k] = t})
            values == [k \in 1..Len(loc.exported) |-> loc.exported[k].value]
        IN  /\ \A t \in tokensFound : Times(loc.listed, t) = 1
            /\ \A k \in 1..Len(loc.listed) : loc.listed[k] \in tokensFound
            /\ \A t \in tokensFound : Times(values, t) <= 1
            /\ \A k \in 1..Len(values) : values[k] \in tokensFound
            /\ \A a, b \in 1..Len(loc.exported) :
                  loc.exported[a].name = loc.exported[b].name => a = b

\* A token was found in more than one row, and the export lines are written.
C10_Witness ==
    /\ script = ET
    /\ pc = "done"
    /\ ET_Rows(loc.all_tokens) > Len(loc.listed)
    /\ Cardinality(DOMAIN loc.all_tokens) >= 2
    /\ Len(loc.exported) >= 1

\* C11: run_all takes the scenarios of TEST_SCENARIOS in list order whatever
\* the earlier scenarios did, and appends one result per scenario, in that
\* order; the summary is printed over all six results and the browser is
\* closed after it; and once the browser and the page exist, every run
\* reaches the summary and ends.
C11_AllScenariosThenSummary ==
    (script = "visual-tester" /\ pc = "steps")
      ~> /\ pc = "done"
         /\ Len(results) = Len(VT_Scenarios)
         /\ \A k \in 1..Len(results) : results[k].scenario = VT_Scenarios[k].name
         /\ "total" \in DOMAIN report
         /\ report.total = Len(VT_Scenarios)
         /\ browser = "closed"

\* A run that ended with the summary although scenarios before the last one
\* had failed.
C11_Witness ==
    /\ script = "visual-tester"
    /\ pc = "done"
    /\ Len(results) = Len(VT_Scenarios)
    /\ ~results[1].success
    /\ ~results[4].success
    /\ results[6].success
    /\ report.total = Len(VT_Scenarios)

\* C12: within a scenario the steps are executed in list order and the first
\* step that raises ends the scenario: the next step executed, if any, is the
\* first step of the next scenario, the scenario is recorded with success
\* False, and the run goes on (the exception does not leave run_scenario).  A
\* step that does not raise is followed by the next step of its scenario, or,
\* after the last step, by the result True.
C12_FirstRaisingStepEndsScenario ==
    [][ (script = "visual-tester" /\ pc = "steps") =>
          LET next == [scenario |-> i + 1, step |-> 1,
                       pc |-> IF i = Len(VT_Scenarios) THEN "summary" ELSE "steps"]
          IN  IF obs'.raised
              THEN /\ results' = Append(results, [scenario |-> VT_Scenarios[i].name,
                                                  success |-> FALSE])
                   /\ <<i', j', pc'>> = <<next.scenario, next.step, next.pc>>
              ELSE IF j < Len(VT_Scenarios[i].steps)
              THEN /\ results' = results
                   /\ <<i', j', pc'>> = <<i, j + 1, "steps">>
              ELSE /\ results' = Append(results, [scenario |-> VT_Scenarios[i].name,
                                                  success |-> TRUE])
                   /\ <<i', j', pc'>> = <<next.scenario, next.step, next.pc>>
      ]_vars

\* The wait for #root, second of the six steps of the first scenario, has
\* timed out: the scenario is recorded as failed, nothing was captured, and
\* the run stands at the first step of the second scenario.
C12_Witness ==
    /\ script = "visual-tester"
    /\ pc = "steps"
    /\ obs.op = "wait_for_selector"
    /\ obs.raised
    /\ i = 2
    /\ j = 1
    /\ results = <<[scenario |-> VT_Scenarios[1].name, success |-> FALSE]>>
    /\ screenshots = <<>>

\* C13: a click step raises if and only if it is not optional and the click
\* failed for every one of its comma-separated selectors; an optional click
\* step never raises.
C13_ClickRaisesIffRequiredAndNoneClicked ==
    (script = "visual-tester" /\ obs.op = "click") =>
        /\ \E s \in 1..Len(VT_Scenarios) : \E t \in 1..Len(VT_Scenarios[s].steps) :
              LET step == VT_Scenarios[s].steps[t]
              IN  /\ step.action = "click"
                  /\ SplitSelectors(step.selector) = obs.list
                  /\ obs.optional = ("optional" \in DOMAIN step /\ step.optional)
        /\ obs.raised <=>
              /\ ~obs.optional
              /\ Len(obs.tried) = Len(obs.list)
              /\ \A k \in 1..Len(obs.tried) : ~obs.tried[k].ok
        /\ obs.optional => ~obs.raised

\* An optional click none of whose selectors could be clicked went through
\* without raising: the scenario goes on with its second step.
C13_Witness ==
    /\ script = "visual-tester"
    /\ obs.op = "click"
    /\ obs.optional
    /\ Len(obs.tried) = 2
    /\ \A k \in 1..Len(obs.tried) : ~obs.tried[k].ok
    /\ ~obs.raised
    /\ pc = "steps"
    /\ j = 2

\* C14, as stated: when the summary is printed, no scenario whose critical
\* analysis contains the FAIL marker is counted as passed.
C14_CriticalFailNeverPassed ==
    (script = "visual-tester" /\ "passed" \in DOMAIN report) =>
        \A n \in 1..Len(history) :
            (history[n].critical /\ Contains(history[n].analysis, "FAIL")) =>
                \A s \in 1..Len(results) :
                    (\E t \in 1..Len(VT_Scenarios[s].steps) :
                        LET step == VT_Scenarios[s].steps[t]
                        IN  /\ step.action = "screenshot"
                            /\ step.name = history[n].screenshot)
                    => ~results[s].success

\* C15: an analyze step that submits a screenshot submits the last entry of
\* self.screenshots, and that entry was captured by a screenshot step of the
\* scenario the analyze step belongs to, earlier in the scenario.
C15_AnalysesOwnLatestScreenshot ==
    (script = "visual-tester" /\ obs.op = "analyze" /\ obs.skipped = "no") =>
        /\ screenshots # <<>>
        /\ obs.path = screenshots[Len(screenshots)]
        /\ \E t \in 1..(obs.step - 1) :
              LET step == VT_Scenarios[obs.scenario].steps[t]
              IN  /\ step.action = "screenshot"
                  /\ step.name = obs.path

\* The analyze step of a later scenario has called the vision API while
\* screenshots of earlier scenarios are on the list.
C15_Witness ==
    /\ script = "visual-tester"
    /\ obs.op = "analyze"
    /\ obs.called
    /\ obs.scenario >= 3
    /\ Len(screenshots) >= 2
    /\ obs.path = VT_Scenarios[obs.scenario].steps[obs.step - 1].name



\* Claim C16.  navigate_to_virtual_office returns True only if a Virtual
\* Office tab click completed (strategy 1) or an Office tab click and the
\* Dashboard button click after it both completed (strategy 2).  Strategy 2
\* is attempted only after every selector of strategy 1 failed, strategy 3
\* only after strategies 1 and 2 both failed, and after strategy 3 the result
\* is False.
C16_NavigateStrategies ==
    (script = "screenshot-service" /\ obs.op = "navigate_return") =>
        LET t == obs.strategies
            s2 == "strategy2" \in DOMAIN t
            s3 == "strategy3" \in DOMAIN t
        IN  /\ "strategy1" \in DOMAIN t
            /\ obs.found =>
                  \/ AnyOk(t.strategy1)
                  \/ /\ s2
                     /\ \E k \in 1..Len(t.strategy2) :
                          t.strategy2[k].tabClicked /\ t.strategy2[k].dashboardClicked
            /\ s2 => /\ Len(t.strategy1) = Len(Svc_tab_selectors)
                     /\ \A k \in 1..Len(t.strategy1) : ~t.strategy1[k].ok
            /\ s3 => /\ s2
                     /\ Len(t.strategy2) = Len(Svc_office_lite_selectors)
                     /\ \A k \in 1..Len(t.strategy2) :
                          ~(t.strategy2[k].tabClicked /\ t.strategy2[k].dashboardClicked)
                     /\ ~obs.found

\* The call returns True through strategy 2: all three tab selectors failed,
\* the first Office selector got the tab but not the Dashboard button, the
\* second got both.
C16_Witness ==
    /\ script = "screenshot-service"
    /\ obs.op = "navigate_return"
    /\ obs.found
    /\ DOMAIN obs.strategies = {"strategy1", "strategy2"}
    /\ Len(obs.strategies.strategy1) = 3
    /\ Len(obs.strategies.strategy2) = 2
    /\ obs.strategies.strategy2[1].tabClicked
    /\ ~obs.strategies.strategy2[1].dashboardClicked
    /\ obs.strategies.strategy2[2].dashboardClicked


\* Claim C17.  capture_screenshot never raises.  When a screenshot file was
\* written and its size read, the call returns the file's path and appends
\* exactly one record, for this screenshot, to self.screenshots; in every
\* other case it returns None and self.screenshots is unchanged.
C17_CaptureRecordsOnceOrNothing ==
    [][(script = "screenshot-service" /\ obs'.op = "screenshot") =>
          /\ ~obs'.raised
          /\ pc' \notin {"finally_raise", "raised"}
          /\ IF obs'.written /\ obs'.stat # StatRaises
             THEN /\ obs'.path # None
                  /\ Len(screenshots') = Len(screenshots) + 1
                  /\ SubSeq(screenshots', 1, Len(screenshots)) = screenshots
                  /\ screenshots'[Len(screenshots')].name = obs'.name
                  /\ screenshots'[Len(screenshots')].file = obs'.path
                  /\ screenshots'[Len(screenshots')].size_kb = obs'.stat
             ELSE /\ obs'.path = None
                  /\ screenshots' = screenshots]_vars

\* A capture whose element screenshot failed and whose fallback page
\* screenshot was written, right after a capture that recorded nothing.
C17_Witness ==
    /\ script = "screenshot-service"
    /\ obs.op = "screenshot"
    /\ obs.name = "02-activity-stream"
    /\ obs.elementFailed
    /\ obs.written
    /\ obs.stat # StatRaises
    /\ obs.path = "02-activity-stream"
    /\ obs.before = 0
    /\ Len(screenshots) = 1
    /\ screenshots[1].name = "02-activity-stream"


\* Claim C18.  At most one alternative view is captured per run: the report
\* never contains both a 07-org-chart and a 07-raci screenshot.
C18_AtMostOneAlternativeView ==
    (script = "screenshot-service" /\ report.written) =>
        ~ /\ \E a \in 1..Len(report.screenshots) :
                report.screenshots[a].name = "07-org-chart"
          /\ \E b \in 1..Len(report.screenshots) :
                report.screenshots[b].name = "07-raci"


\* Claim C19.  When run() has returned or raised, every resource start()
\* acquired has been released: the Playwright driver is no longer running
\* and the browser is no longer open.
C19_AllResourcesReleased ==
    (script = "screenshot-service" /\ pc \in {"done", "raised"}) =>
        /\ pw # "running"
        /\ browser # "open"


\* Claim C20.  Every call of check_element_exists appends exactly one
\* finding and returns True iff that finding has exists = True, and nothing
\* else changes the findings.  In every finding has_content implies exists,
\* so in every report elements_found = elements_with_content + elements_empty.
C20_OneFindingPerCheck ==
    [][script = CT =>
          /\ IF \/ obs'.op = "check_element_exists"
                \/ obs'.op = "click" /\ obs'.checked
             THEN /\ Len(results') = Len(results) + 1
                  /\ SubSeq(results', 1, Len(results)) = results
                  /\ obs'.returns = results'[Len(results')].exists
             ELSE results' = results
          /\ \A k \in 1..Len(results') : results'[k].has_content => results'[k].exists
          /\ report'.written =>
               /\ report'.findings = results'
               /\ report'.summary.elements_found =
                    Cardinality({k \in 1..Len(results') : results'[k].exists})
               /\ report'.summary.elements_found =
                    report'.summary.elements_with_content
                    + report'.summary.elements_empty]_vars

\* A report with an element not found, an element found empty and an
\* element found with content.
C20_Witness ==
    /\ script = CT
    /\ report.written
    /\ Len(report.findings) = 6
    /\ report.summary.elements_with_content > 0
    /\ report.summary.elements_empty > 0
    /\ report.summary.elements_found < Len(report.findings)
    /\ ~report.findings[1].exists

=============================================================================
